---- MODULE Spec2Model ----
(***************************************************************************)
(* Model of the xyz terminal application: the input loop and key state     *)
(* machine of orchestrator.py, the column layout and the visible-row       *)
(* computation of view_agenda.py / view_month.py, and the storage calls    *)
(* they make.                                                              *)
(*                                                                         *)
(* orchestrator.py is written against declarations that the other modules  *)
(* under src/ do not provide (Event.coords, AppState.agenda_row_overrides, *)
(* AppState.month_event_col, CalendarService.delete_event, KEY_N,          *)
(* KEY_CTRL_J, KEY_CTRL_K).  Those are modelled from their use in          *)
(* orchestrator.py and from the specification's data model.                *)
(***************************************************************************)
EXTENDS Integers, Sequences, FiniteSets, TLC

VARIABLES
    state,           \* Orchestrator.state : AppState (with its LeaderState)
    pending_delete,  \* Orchestrator._pending_delete
    now,             \* the wall clock, in ms (time.time() * 1000)
    running,         \* TRUE until the loop of _curses_main is left
    hist,            \* history of the last loop iteration (not program state)
    pin,             \* input of the pure computation under study
    pout             \* its result

vars == <<state, pending_delete, now, running, hist, pin, pout>>

(***************************************************************************)
(* Program constants                                                       *)
(***************************************************************************)
LEADER_TIMEOUT_MS == 1000
DELETE_TIMEOUT_MS == 600
POLL_MS == 100

KEY_Q == 113
KEY_CAP_Q == 81
KEY_HELP == 63
KEY_TODAY == 116
KEY_LEADER == 44
KEY_ESC == 27
KEY_I == 105
KEY_TAB == 9
KEY_D == 100
KEY_CTRL_H == 8
KEY_CTRL_L == 12
KEY_A == 97
KEY_H == 104
KEY_J == 106
KEY_K == 107
KEY_L == 108
KEY_N == 110
KEY_CTRL_J == 10
KEY_CTRL_K == 11
KEY_CAP_B == 66
KEY_CAP_H == 72
KEY_CAP_L == 76
KEY_NEWLINE == 10
KEY_ENTER == 343
KEY_X == 120
KEY_R == 114
KEY_C == 99

None == -1

BUCKETS == <<"personal_development", "thing", "economic">>
ALL_BUCKET == "all"
DEFAULT_BUCKET == "personal_development"

COLUMN_COUNT == 4
GAP_WIDTH == 1
MIN_WIDTHS == <<6, 6, 6, 6>>
MAX_WIDTHS == <<19, 60, 40, 12>>
HEADER_LENS == <<1, 1, 1, 3>>
MONTH_MIN_WIDTHS == <<5, 6, 6, 6>>
MONTH_MAX_WIDTHS == <<12, 60, 40, 12>>
TIMESTAMP_LEN == 16
MONTH_TIMESTAMP_LEN == 5
NEWLINE == 10
SPACE == 32
TAB == 9
\* tabsize of TextWrapper, which textwrap.wrap leaves at its default
TABSIZE == 8

(***************************************************************************)
(* Small helpers                                                           *)
(***************************************************************************)
Min(a, b) == IF a < b THEN a ELSE b
Max(a, b) == IF a > b THEN a ELSE b

\* ui_base.clamp
clamp(value, min_value, max_value) == Max(min_value, Min(value, max_value))

Range(s) == {s[i] : i \in 1..Len(s)}

RECURSIVE SumSeq(_)
SumSeq(s) == IF s = <<>> THEN 0 ELSE Head(s) + SumSeq(Tail(s))

RECURSIVE MaxSeq(_)
MaxSeq(s) == IF s = <<>> THEN 0 ELSE Max(Head(s), MaxSeq(Tail(s)))

\* Remove the element at position i (1-based).
RemoveAt(s, i) == SubSeq(s, 1, i - 1) \o SubSeq(s, i + 1, Len(s))

(***************************************************************************)
(* Records (models.Event).  Text fields are sequences of character codes.  *)
(* x is a timestamp; DAY_TICKS timestamps make one calendar day.           *)
(***************************************************************************)
DAY_TICKS == 10

\* datetime.today() while the program runs
TODAY == 15

Event(b, x, y, z) == [bucket |-> b, x |-> x, y |-> y, z |-> z, p |-> 0, q |-> 0, r |-> 0]

\* datetime.date()
DateOf(x) == x \div DAY_TICKS

\* Event.with_updated, one keyword at a time
with_updated_bucket(ev, b) == [ev EXCEPT !.bucket = b]
with_updated_x(ev, x) == [ev EXCEPT !.x = x]
with_updated_y(ev, y) == [ev EXCEPT !.y = y]
with_updated_z(ev, z) == [ev EXCEPT !.z = z]

\* Python's order on the bucket names (str.__lt__).
BucketRank(b) ==
    CASE b = "economic" -> 1
      [] b = "personal_development" -> 2
      [] b = "thing" -> 3
      [] OTHER -> 0

\* Lexicographic order on sequences of integers: -1, 0, 1.
RECURSIVE CmpSeq(_, _)
CmpSeq(a, b) ==
    IF a = <<>> /\ b = <<>> THEN 0
    ELSE IF a = <<>> THEN -1
    ELSE IF b = <<>> THEN 1
    ELSE IF Head(a) < Head(b) THEN -1
    ELSE IF Head(a) > Head(b) THEN 1
    ELSE CmpSeq(Tail(a), Tail(b))

\* The sort key of store.save_events / store.upsert_event as a sequence of
\* comparisons: (x, bucket, y, z, p, q, r).
KeyLess(a, b) ==
    LET c == << IF a.x < b.x THEN -1 ELSE IF a.x > b.x THEN 1 ELSE 0,
                IF BucketRank(a.bucket) < BucketRank(b.bucket) THEN -1
                ELSE IF BucketRank(a.bucket) > BucketRank(b.bucket) THEN 1 ELSE 0,
                CmpSeq(a.y, b.y),
                CmpSeq(a.z, b.z),
                IF a.p < b.p THEN -1 ELSE IF a.p > b.p THEN 1 ELSE 0,
                IF a.q < b.q THEN -1 ELSE IF a.q > b.q THEN 1 ELSE 0,
                IF a.r < b.r THEN -1 ELSE IF a.r > b.r THEN 1 ELSE 0 >>
        firstDiff == {i \in 1..7 : c[i] # 0 /\ \A j \in 1..(i - 1) : c[j] = 0}
    IN  \E i \in firstDiff : c[i] = -1

\* sorted(...): stable insertion under KeyLess.
RECURSIVE InsertSorted(_, _)
InsertSorted(s, e) ==
    IF s = <<>> THEN <<e>>
    ELSE IF KeyLess(e, Head(s)) THEN <<e>> \o s
    ELSE <<Head(s)>> \o InsertSorted(Tail(s), e)

RECURSIVE SortEvents(_)
SortEvents(s) ==
    IF s = <<>> THEN <<>>
    ELSE InsertSorted(SortEvents(SubSeq(s, 1, Len(s) - 1)), s[Len(s)])

\* store.load_events orders by x alone.
SortedByX(s) == \A i \in 1..(Len(s) - 1) : s[i].x <= s[i + 1].x

\* Index of the first element of s equal to e, 0 when there is none.
FirstIndexOf(s, e) ==
    IF \E i \in 1..Len(s) : s[i] = e
    THEN CHOOSE i \in 1..Len(s) : s[i] = e /\ \A j \in 1..(i - 1) : s[j] # e
    ELSE 0

\* upsert_event that never drops the original
UpsertAppends(events, new_event, editing, original) == SortEvents(Append(events, new_event))

\* upsert_event that drops every record equal to the original
UpsertDropsEvery(events, new_event, editing, original) ==
    SortEvents(Append(IF editing THEN SelectSeq(events, LAMBDA e : e # original) ELSE events,
                      new_event))

\* store.upsert_event with replace_dt = (editing, original): drop the first
\* record equal to the original when editing, append the new record, sort.
upsert_event(events, new_event, editing, original) ==
    LET i == IF editing THEN FirstIndexOf(events, original) ELSE 0
        updated == IF i = 0 THEN events ELSE RemoveAt(events, i)
    IN  SortEvents(Append(updated, new_event))

\* CalendarService.delete_event (called by _perform_delete; the storage
\* interface deleteRecord(current, target)): the list without the target.
delete_event(events, target) ==
    LET i == FirstIndexOf(events, target)
    IN  IF i = 0 THEN events ELSE RemoveAt(events, i)

(***************************************************************************)
(* The CSV file of store.py.  Where records are written and read back a    *)
(* timestamp counts TICKS_PER_SECOND to the second (a datetime carries     *)
(* microseconds).  A timestamp text is [fmt, value]: "seconds" is          *)
(* YYYY-MM-DD HH:MM:SS with value seconds, "minutes" is YYYY-MM-DD HH:MM   *)
(* with value minutes, "fraction" is an ISO text with fractional seconds   *)
(* and value timestamps, anything else does not parse.  A cell of text or  *)
(* of a metric holds what csv.writer and str() wrote, which csv.reader and *)
(* float() give back unchanged.                                            *)
(***************************************************************************)
TICKS_PER_SECOND == 2    \* timestamps told apart within one second

\* models.parse_datetime: the timestamp, or None for ValidationError
parse_datetime(text) ==
    CASE text.fmt = "seconds" -> text.value * TICKS_PER_SECOND
      [] text.fmt = "minutes" -> text.value * 60 * TICKS_PER_SECOND
      [] text.fmt = "fraction" -> text.value
      [] OTHER -> None

\* store._serialize_event: x.strftime(DATETIME_FMT) writes whole seconds
_serialize_event(event) ==
    [bucket |-> event.bucket,
     x |-> [fmt |-> "seconds", value |-> event.x \div TICKS_PER_SECOND],
     y |-> event.y, z |-> event.z, p |-> event.p, q |-> event.q, r |-> event.r]

\* store._deserialize_row of a row with a known bucket and numeric metrics
_deserialize_row(row) ==
    [bucket |-> row.bucket, x |-> parse_datetime(row.x), y |-> row.y, z |-> row.z,
     p |-> row.p, q |-> row.q, r |-> row.r]

\* store.save_events: the rows written after the header row
save_events(events) ==
    [i \in 1..Len(events) |-> _serialize_event(SortEvents(events)[i])]

\* store.load_events: the rows read, then events.sort(key = x), a stable sort
load_events(rows) ==
    LET events == [i \in 1..Len(rows) |-> _deserialize_row(rows[i])]
        Rank(i) == Cardinality({j \in 1..Len(events) :
                       \/ events[j].x < events[i].x
                       \/ events[j].x = events[i].x /\ j < i}) + 1
    IN  [k \in 1..Len(events) |-> events[CHOOSE i \in 1..Len(events) : Rank(i) = k]]

(***************************************************************************)
(* models.normalize_event_payload.  A payload value is [present, v]: a key *)
(* that is missing or None has present = FALSE.  A bucket text is          *)
(* [name, padded, upper]: the lower-case name, whether blanks surround it, *)
(* whether it is written in capitals.  A metric is [kind, value, text]: a  *)
(* number, a text, nothing, or a value of another type.  Each helper       *)
(* returns [ok, v]; ok = FALSE models the ValidationError it raises.       *)
(***************************************************************************)
\* str.strip left out
StripNothing(text) == text

\* str.strip
RECURSIVE strip(_)
strip(text) ==
    IF text = <<>> THEN <<>>
    ELSE IF Head(text) \in {SPACE, TAB, NEWLINE} THEN strip(Tail(text))
    ELSE IF text[Len(text)] \in {SPACE, TAB, NEWLINE}
         THEN strip(SubSeq(text, 1, Len(text) - 1))
    ELSE text

\* float() of a text of decimal digits; None for ValueError (any other text
\* of the inputs drawn here)
RECURSIVE float(_)
float(text) ==
    IF text = <<>> \/ \E i \in 1..Len(text) : text[i] \notin 48..57 THEN None
    ELSE IF Len(text) = 1 THEN text[1] - 48
    ELSE float(SubSeq(text, 1, Len(text) - 1)) * 10 + text[Len(text)] - 48

_normalize_bucket(raw_bucket) ==
    IF ~raw_bucket.present THEN [ok |-> FALSE]
    ELSE LET bucket == [raw_bucket.v EXCEPT !.padded = FALSE, !.upper = FALSE]
         IN  IF \E i \in 1..Len(BUCKETS) :
                    bucket = [name |-> BUCKETS[i], padded |-> FALSE, upper |-> FALSE]
             THEN [ok |-> TRUE, v |-> bucket.name]
             ELSE [ok |-> FALSE]

_extract_jtbd(data) ==
    IF ~data.jtbd.dict THEN [ok |-> FALSE]
    ELSE IF ~data.jtbd.x.present \/ ~data.jtbd.y.present \/ ~data.jtbd.z.present
         THEN [ok |-> FALSE]
    ELSE IF parse_datetime(data.jtbd.x.v) = None THEN [ok |-> FALSE]
    ELSE IF strip(data.jtbd.y.v) = <<>> THEN [ok |-> FALSE]
    ELSE IF strip(data.jtbd.z.v) = <<>> THEN [ok |-> FALSE]
    ELSE [ok |-> TRUE, v |-> [x |-> parse_datetime(data.jtbd.x.v),
                              y |-> strip(data.jtbd.y.v), z |-> strip(data.jtbd.z.v)]]

_coerce_metric(value) ==
    CASE value.kind = "none" -> [ok |-> FALSE]
      [] value.kind = "number" -> [ok |-> TRUE, v |-> value.value]
      [] value.kind = "str" ->
            IF strip(value.text) = <<>> \/ float(strip(value.text)) = None
            THEN [ok |-> FALSE]
            ELSE [ok |-> TRUE, v |-> float(strip(value.text))]
      [] OTHER -> [ok |-> FALSE]

_extract_nsm(data) ==
    IF ~data.nsm.dict THEN [ok |-> FALSE]
    ELSE IF \E k \in {"p", "q", "r"} : ~_coerce_metric(data.nsm[k]).ok THEN [ok |-> FALSE]
    ELSE [ok |-> TRUE, v |-> [k \in {"p", "q", "r"} |-> _coerce_metric(data.nsm[k]).v]]

normalize_event_payload(data) ==
    IF ~_normalize_bucket(data.bucket).ok \/ ~_extract_jtbd(data).ok \/ ~_extract_nsm(data).ok
    THEN [ok |-> FALSE]
    ELSE [ok |-> TRUE,
          v |-> [Event(_normalize_bucket(data.bucket).v, _extract_jtbd(data).v.x,
                       _extract_jtbd(data).v.y, _extract_jtbd(data).v.z)
                    EXCEPT !.p = _extract_nsm(data).v.p, !.q = _extract_nsm(data).v.q,
                           !.r = _extract_nsm(data).v.r]]

(***************************************************************************)
(* Text: str.splitlines, textwrap.wrap, _wrap_text, _max_line_length       *)
(***************************************************************************)
\* Position of the first NEWLINE in t, 0 when there is none.
FirstNewline(t) ==
    IF \E i \in 1..Len(t) : t[i] = NEWLINE
    THEN CHOOSE i \in 1..Len(t) : t[i] = NEWLINE /\ \A j \in 1..(i - 1) : t[j] # NEWLINE
    ELSE 0

\* str.splitlines for texts whose only line boundary is "\n".
RECURSIVE splitlines(_)
splitlines(t) ==
    IF t = <<>> THEN <<>>
    ELSE LET i == FirstNewline(t)
         IN  IF i = 0 THEN <<t>>
             ELSE <<SubSeq(t, 1, i - 1)>> \o splitlines(SubSeq(t, i + 1, Len(t)))

_max_line_length(text) ==
    LET Longest(lines) == IF lines = <<>> THEN Len(text)
                          ELSE MaxSeq([i \in 1..Len(lines) |-> Len(lines[i])])
    IN  IF text = <<>> THEN 0 ELSE Longest(splitlines(text))

\* TextWrapper._split for texts of letters and blanks: maximal runs of
\* blanks and of non-blanks.
RECURSIVE SplitChunks(_, _)
SplitChunks(t, cur) ==
    IF t = <<>> THEN (IF cur = <<>> THEN <<>> ELSE <<cur>>)
    ELSE IF cur = <<>> \/ ((Head(t) = SPACE) = (cur[1] = SPACE))
         THEN SplitChunks(Tail(t), Append(cur, Head(t)))
         ELSE <<cur>> \o SplitChunks(Tail(t), <<Head(t)>>)

\* The inner loop of TextWrapper._wrap_chunks: chunks that fit the line.
RECURSIVE FillLine(_, _, _)
FillLine(chunks, cur, width) ==
    IF chunks # <<>> /\ Len(cur) + Len(Head(chunks)) <= width
    THEN FillLine(Tail(chunks), cur \o Head(chunks), width)
    ELSE <<cur, chunks>>

\* _wrap_chunks as with break_long_words=False: a chunk longer than the
\* width gets a line of its own
RECURSIVE WrapChunksUnbroken(_, _)
WrapChunksUnbroken(chunks, width) ==
    IF chunks = <<>> THEN <<>>
    ELSE LET Filled(filled) ==
                 IF filled[1] = <<>>
                 THEN <<Head(chunks)>> \o WrapChunksUnbroken(Tail(chunks), width)
                 ELSE <<filled[1]>> \o WrapChunksUnbroken(filled[2], width)
         IN  Filled(FillLine(chunks, <<>>, width))

\* TextWrapper._wrap_chunks with break_long_words, no whitespace dropped.
RECURSIVE WrapChunks(_, _)
WrapChunks(chunks, width) ==
    IF chunks = <<>> THEN <<>>
    ELSE LET Emit(line, left) ==
                 (IF line = <<>> THEN <<>> ELSE <<line>>) \o WrapChunks(left, width)
             Line(cur, rest) ==
                 IF rest # <<>> /\ Len(Head(rest)) > width
                 THEN Emit(cur \o SubSeq(Head(rest), 1, width - Len(cur)),
                           <<SubSeq(Head(rest), width - Len(cur) + 1, Len(Head(rest)))>>
                               \o Tail(rest))
                 ELSE Emit(cur, rest)
             Filled(filled) == Line(filled[1], filled[2])
         IN  Filled(FillLine(chunks, <<>>, width))

\* str.expandtabs, which TextWrapper._munge_whitespace applies (expand_tabs
\* is left at its default): each tab becomes blanks up to the next tab stop.
RECURSIVE expandtabs(_, _)
expandtabs(t, col) ==
    IF t = <<>> THEN <<>>
    ELSE IF Head(t) = TAB
    THEN [i \in 1..(TABSIZE - (col % TABSIZE)) |-> SPACE] \o expandtabs(Tail(t), 0)
    ELSE <<Head(t)>> \o expandtabs(Tail(t), col + 1)

textwrap_wrap(part, width) == WrapChunks(SplitChunks(expandtabs(part, 0), <<>>), width)

RECURSIVE WrapParts(_, _)
WrapParts(parts, width) ==
    IF parts = <<>> THEN <<>>
    ELSE LET OrBlank(wrapped) == IF wrapped = <<>> THEN << <<>> >> ELSE wrapped
         IN  OrBlank(IF Head(parts) = <<>> THEN <<>> ELSE textwrap_wrap(Head(parts), width))
             \o WrapParts(Tail(parts), width)

\* The wrap units of _wrap_text: text.splitlines() or [text]
HardBreakUnits(value) == IF splitlines(value) = <<>> THEN <<value>> ELSE splitlines(value)

_wrap_text(value, width) ==
    IF width <= 0 THEN << <<>> >>
    ELSE LET OrBlank(lines) == IF lines = <<>> THEN << <<>> >> ELSE lines
             Parts(parts) == IF parts = <<>> THEN <<value>> ELSE parts
         IN  OrBlank(WrapParts(Parts(splitlines(value)), width))

\* Length of _format_nsm_value(event): (p + q + r) / 30 to two decimals,
\* trailing zeros and a trailing point removed (metrics >= 0).
RECURSIVE DecimalDigits(_)
DecimalDigits(n) == IF n < 10 THEN 1 ELSE 1 + DecimalDigits(n \div 10)

FormatNsmLen(ev) ==
    LET Digits(cents) ==
            DecimalDigits(cents \div 100)
            + (IF cents % 100 = 0 THEN 0 ELSE IF cents % 10 = 0 THEN 2 ELSE 3)
    IN  Digits(((ev.p + ev.q + ev.r) * 200 + 30) \div 60)

(***************************************************************************)
(* Column layout: the width negotiation of AgendaView.render and           *)
(* MonthView._draw_events_pane                                             *)
(***************************************************************************)
TotalWidth(widths) == SumSeq(widths) + (COLUMN_COUNT - 1) * GAP_WIDTH

\* the last index of a maximal width
LargestIdxLast(widths) ==
    CHOOSE i \in 1..Len(widths) :
        /\ \A j \in 1..Len(widths) : widths[j] <= widths[i]
        /\ \A j \in (i + 1)..Len(widths) : widths[j] < widths[i]

\* max(range(n), key=widths): the first index of a maximal width.
LargestIdx(widths) ==
    CHOOSE i \in 1..Len(widths) :
        /\ \A j \in 1..Len(widths) : widths[j] <= widths[i]
        /\ \A j \in 1..(i - 1) : widths[j] < widths[i]

InitialWidths(min_widths, max_widths, header_lens, data_lens) ==
    [i \in 1..COLUMN_COUNT |->
        Max(min_widths[i], Min(max_widths[i], Max(header_lens[i], data_lens[i])))]

\* First loop: shrink the widest column while some column is above its minimum.
RECURSIVE ShrinkWidest(_, _, _)
ShrinkWidest(widths, min_widths, usable_w) ==
    IF TotalWidth(widths) > usable_w
       /\ \E i \in 1..COLUMN_COUNT : widths[i] > min_widths[i]
    THEN LET Shrink(largest_idx) ==
                 IF widths[largest_idx] <= min_widths[largest_idx] THEN widths
                 ELSE ShrinkWidest([widths EXCEPT ![largest_idx] = @ - 1],
                                   min_widths, usable_w)
         IN  Shrink(LargestIdx(widths))
    ELSE widths

\* the round robin left out
RoundRobinSkipped(widths, idx_iter, usable_w) == widths

\* Second loop: round robin down to 1.  idx_iter is 1-based here.
RECURSIVE ShrinkRoundRobin(_, _, _)
ShrinkRoundRobin(widths, idx_iter, usable_w) ==
    IF TotalWidth(widths) > usable_w /\ \E i \in 1..COLUMN_COUNT : widths[i] > 1
    THEN ShrinkRoundRobin(
             IF widths[idx_iter] > 1 THEN [widths EXCEPT ![idx_iter] = @ - 1] ELSE widths,
             (idx_iter % COLUMN_COUNT) + 1, usable_w)
    ELSE widths

\* Third loop: clip the remaining overflow, column by column from index 0.
RECURSIVE ClipOverflow(_, _, _)
ClipOverflow(widths, idx, overflow) ==
    IF idx > COLUMN_COUNT \/ overflow <= 0 THEN widths
    ELSE LET Clip(delta) ==
                 ClipOverflow([widths EXCEPT ![idx] = @ - delta], idx + 1, overflow - delta)
         IN  IF widths[idx] - 1 <= 0 THEN ClipOverflow(widths, idx + 1, overflow)
             ELSE Clip(Min(widths[idx] - 1, overflow))

\* The widths after the three loops and the final max(1, width).
NegotiateWidths(min_widths, max_widths, header_lens, data_lens, usable_w) ==
    LET Clip(w) == IF TotalWidth(w) > usable_w /\ usable_w > 0
                   THEN ClipOverflow(w, 1, TotalWidth(w) - usable_w) ELSE w
        AtLeastOne(w) == [i \in 1..COLUMN_COUNT |-> Max(1, w[i])]
    IN  AtLeastOne(Clip(ShrinkRoundRobin(
            ShrinkWidest(InitialWidths(min_widths, max_widths, header_lens, data_lens),
                         min_widths, usable_w),
            1, usable_w)))

\* The negotiation with its closing test left out
NeverDegenerate(widths, usable_w) == FALSE

\* The test after the negotiation: the frame is skipped when it holds.
Degenerate(widths, usable_w) == TotalWidth(widths) > usable_w /\ usable_w > 0

\* The layout a frame is drawn with: the widths, or skip = TRUE.
ComputeLayout(min_widths, max_widths, header_lens, data_lens, usable_w) ==
    LET Layout(widths) == [widths |-> widths, skip |-> Degenerate(widths, usable_w)]
    IN  Layout(NegotiateWidths(min_widths, max_widths, header_lens, data_lens, usable_w))

(***************************************************************************)
(* Visible rows.  Row indices are 0-based as in the source; row_heights is *)
(* a sequence, so row idx has height row_heights[idx + 1].                 *)
(***************************************************************************)
\* The loop of compute_visible without its fallback for a row that is
\* taller than the viewport
RECURSIVE VisibleWithoutFallback(_, _, _, _, _)
VisibleWithoutFallback(row_heights, data_height, idx, used, visible) ==
    IF idx >= Len(row_heights) THEN visible
    ELSE LET Place(height) ==
                 IF used + height > data_height THEN visible
                 ELSE IF used + height >= data_height THEN Append(visible, idx)
                 ELSE VisibleWithoutFallback(row_heights, data_height, idx + 1,
                                             used + height, Append(visible, idx))
         IN  Place(Max(1, row_heights[idx + 1]))

\* compute_visible that also takes the first row that no longer fits
RECURSIVE VisibleOverfull(_, _, _, _, _)
VisibleOverfull(row_heights, data_height, idx, used, visible) ==
    IF idx >= Len(row_heights) THEN visible
    ELSE LET Place(height) ==
                 IF used + height >= data_height THEN Append(visible, idx)
                 ELSE VisibleOverfull(row_heights, data_height, idx + 1, used + height,
                                      Append(visible, idx))
         IN  Place(Max(1, row_heights[idx + 1]))

\* The loop of compute_visible from row idx on, with `used` lines taken.
RECURSIVE VisibleFrom(_, _, _, _, _)
VisibleFrom(row_heights, data_height, idx, used, visible) ==
    IF idx >= Len(row_heights) THEN visible
    ELSE LET Place(height) ==
                 IF used + height > data_height
                 THEN (IF visible = <<>> THEN <<idx>> ELSE visible)
                 ELSE IF used + height >= data_height THEN Append(visible, idx)
                 ELSE VisibleFrom(row_heights, data_height, idx + 1, used + height,
                                  Append(visible, idx))
         IN  Place(Max(1, row_heights[idx + 1]))

\* compute_visible(start_idx) of AgendaView.render and of _draw_events_pane
compute_visible(row_heights, data_height, start_idx) ==
    VisibleFrom(row_heights, data_height, Max(0, start_idx), 0, <<>>)

_height_sum(row_heights, indices) ==
    SumSeq([i \in 1..Len(indices) |-> row_heights[indices[i] + 1]])

\* while selected_idx not in visible and scroll < total_rows - 1: scroll += 1
RECURSIVE AdvanceScroll(_, _, _, _)
AdvanceScroll(row_heights, data_height, selected_idx, scroll) ==
    IF selected_idx \notin Range(compute_visible(row_heights, data_height, scroll))
       /\ scroll < Len(row_heights) - 1
    THEN AdvanceScroll(row_heights, data_height, selected_idx, scroll + 1)
    ELSE scroll

\* the pull-back taking one step at most
PullBackOnce(row_heights, data_height, selected_idx, scroll) ==
    IF scroll > 0
    THEN LET Pull(prev_visible) ==
                 IF selected_idx \notin Range(prev_visible) THEN scroll
                 ELSE IF _height_sum(row_heights, prev_visible) > data_height THEN scroll
                 ELSE scroll - 1
         IN  Pull(compute_visible(row_heights, data_height, scroll - 1))
    ELSE scroll

\* the pull-back left out
PullBackSkipped(row_heights, data_height, selected_idx, scroll) == scroll

\* while scroll > 0: pull the window back while the selection stays and fits
RECURSIVE PullBack(_, _, _, _)
PullBack(row_heights, data_height, selected_idx, scroll) ==
    IF scroll > 0
    THEN LET Pull(prev_visible) ==
                 IF selected_idx \notin Range(prev_visible) THEN scroll
                 ELSE IF _height_sum(row_heights, prev_visible) > data_height THEN scroll
                 ELSE PullBack(row_heights, data_height, selected_idx, scroll - 1)
         IN  Pull(compute_visible(row_heights, data_height, scroll - 1))
    ELSE scroll

\* The scroll computation of AgendaView.render for a non-empty row list:
\* the final scroll offset and the rows drawn.
AgendaVisible(row_heights, data_height, selected, previous_scroll) ==
    LET total_rows == Len(row_heights)
        Window(selected_idx, scroll, visible) ==
            IF visible = <<>> THEN [scroll |-> selected_idx, visible |-> <<selected_idx>>]
            ELSE [scroll |-> scroll, visible |-> visible]
        Settle(selected_idx, scroll) ==
            Window(selected_idx, scroll, compute_visible(row_heights, data_height, scroll))
        Snap(selected_idx, scroll) ==
            IF selected_idx \notin Range(compute_visible(row_heights, data_height, scroll))
            THEN selected_idx ELSE scroll
        From(selected_idx, scroll) ==
            Settle(selected_idx,
                   PullBack(row_heights, data_height, selected_idx,
                            Snap(selected_idx,
                                 AdvanceScroll(row_heights, data_height, selected_idx,
                                               Min(scroll, selected_idx)))))
    IN  From(clamp(selected, 0, total_rows - 1), clamp(previous_scroll, 0, total_rows - 1))

\* the month pane drawing from row 0 whatever is selected
MonthVisibleFromTop(row_heights, data_height, selected) ==
    [scroll |-> 0, visible |-> compute_visible(row_heights, data_height, 0)]

\* The same for MonthView._draw_events_pane, which always starts at row 0.
MonthVisible(row_heights, data_height, selected) ==
    LET Window(start_idx) ==
            [scroll |-> start_idx,
             visible |-> compute_visible(row_heights, data_height, start_idx)]
    IN  Window(AdvanceScroll(row_heights, data_height,
                             clamp(selected, 0, Len(row_heights) - 1), 0))

(***************************************************************************)
(* Rows of a frame                                                         *)
(***************************************************************************)
\* Orchestrator._event_identity: (bucket, x, y, z)
_event_identity(ev) == <<ev.bucket, ev.x, ev.y, ev.z>>

\* view_agenda._event_identity / view_month._event_identity: seven fields
view_event_identity(ev) == <<ev.bucket, ev.x, ev.y, ev.z, ev.p, ev.q, ev.r>>

\* identity in row_overrides, for tuples (tuples of different length differ)
InOverrides(identity, row_overrides) ==
    \E o \in row_overrides : Len(o) = Len(identity) /\ o = identity

\* The height of the row drawn for ev with the y and z columns y_w and z_w wide.
RowHeight(ev, y_w, z_w, expand_all, row_overrides) ==
    LET is_expanded == expand_all = ~InOverrides(view_event_identity(ev), row_overrides)
        Shown(lines_full) == IF is_expanded THEN Len(lines_full) ELSE Min(1, Len(lines_full))
    IN  Max(1, Max(Max(1, Shown(_wrap_text(ev.y, y_w))), Max(1, Shown(_wrap_text(ev.z, z_w)))))

\* column_lengths: the longest sample of each column
ColumnLengths(events, timestamp_len) ==
    << IF events = <<>> THEN 0 ELSE timestamp_len,
       MaxSeq([i \in 1..Len(events) |-> _max_line_length(events[i].y)]),
       MaxSeq([i \in 1..Len(events) |-> _max_line_length(events[i].z)]),
       MaxSeq([i \in 1..Len(events) |-> FormatNsmLen(events[i])]) >>

\* AgendaView.render on a terminal of h lines and w columns: the scroll
\* offset it returns (all it changes in the program state).
\* render that starts from the top whenever it draws no rows
RenderRestartsScroll(events, selected_idx, scroll, expand_all, row_overrides, h, w) ==
    LET Rows(layout) ==
            IF layout.skip \/ h - 2 <= 0 \/ events = <<>> THEN 0
            ELSE AgendaVisible([i \in 1..Len(events) |->
                                   RowHeight(events[i], layout.widths[2], layout.widths[3],
                                             expand_all, row_overrides)],
                               h - 2, selected_idx, scroll).scroll
    IN  IF h - 1 <= 0 \/ w - 1 <= 0 THEN 0
        ELSE Rows(ComputeLayout(MIN_WIDTHS, MAX_WIDTHS, HEADER_LENS,
                                ColumnLengths(events, TIMESTAMP_LEN), Max(0, w - 1)))

render(events, selected_idx, scroll, expand_all, row_overrides, h, w) ==
    LET usable_h == h - 1
        usable_w == Max(0, w - 1)
        data_height == h - 2
        kept == IF events = <<>> THEN 0 ELSE clamp(scroll, 0, Max(0, Len(events) - 1))
        Rows(layout) ==
            IF layout.skip THEN kept
            ELSE IF data_height <= 0 THEN kept
            ELSE IF events = <<>> THEN 0
            ELSE AgendaVisible([i \in 1..Len(events) |->
                                   RowHeight(events[i], layout.widths[2], layout.widths[3],
                                             expand_all, row_overrides)],
                               data_height, selected_idx, scroll).scroll
    IN  IF usable_h <= 0 \/ usable_w <= 0 THEN kept
        ELSE Rows(ComputeLayout(MIN_WIDTHS, MAX_WIDTHS, HEADER_LENS,
                                ColumnLengths(events, TIMESTAMP_LEN), usable_w))

(***************************************************************************)
(* AppState and the helpers of Orchestrator that read or update it         *)
(***************************************************************************)
LeaderIdle == [active |-> FALSE, started_at_ms |-> None, sequence |-> <<>>]

\* AppState() with the events loaded at start-up
AppState(events, overlay) ==
    [view |-> "month", leader |-> LeaderIdle, overlay |-> overlay, events |-> events,
     agenda_index |-> 0, agenda_scroll |-> 0, agenda_expand_all |-> TRUE,
     agenda_col |-> 0, agenda_bucket_filter |-> ALL_BUCKET,
     agenda_row_overrides |-> {},
     month_focus |-> "grid", month_selected_date |-> DateOf(TODAY),
     month_event_index |-> 0, month_event_col |-> 0]

_bucket_filtered_events(st) ==
    IF st.agenda_bucket_filter = ALL_BUCKET THEN st.events
    ELSE SelectSeq(st.events, LAMBDA ev : ev.bucket = st.agenda_bucket_filter)

_visible_agenda_events(st) == _bucket_filtered_events(st)

_month_events_for_selected_date(st) ==
    SelectSeq(_bucket_filtered_events(st),
              LAMBDA ev : DateOf(ev.x) = st.month_selected_date)

\* _ensure_agenda_index_bounds clamping to the length, not the last index
ClampToLength(st, visible_length) ==
    LET a == IF visible_length <= 0
             THEN [st EXCEPT !.agenda_index = 0, !.agenda_scroll = 0]
             ELSE [st EXCEPT !.agenda_index = Max(0, Min(@, visible_length)),
                             !.agenda_scroll = Max(0, Min(@, visible_length - 1))]
    IN  [a EXCEPT !.agenda_col = Max(0, Min(@, COLUMN_COUNT - 1))]

_ensure_agenda_index_bounds(st, visible_length) ==
    LET a == IF visible_length <= 0
             THEN [st EXCEPT !.agenda_index = 0, !.agenda_scroll = 0]
             ELSE [st EXCEPT !.agenda_index = Max(0, Min(@, visible_length - 1)),
                             !.agenda_scroll = Max(0, Min(@, visible_length - 1))]
    IN  [a EXCEPT !.agenda_col = Max(0, Min(@, COLUMN_COUNT - 1))]

\* MonthView.clamp_event_index on the bucket-filtered events
clamp_event_index(st, idx) ==
    LET evs == _month_events_for_selected_date(st)
    IN  IF evs = <<>> THEN 0 ELSE clamp(idx, 0, Len(evs) - 1)

\* Overrides kept whatever the record list holds
KeepAllOverrides(st) == st

_prune_row_overrides(st) ==
    [st EXCEPT !.agenda_row_overrides =
        @ \cap {_event_identity(st.events[i]) : i \in 1..Len(st.events)}]

_replace_row_override(st, old_event, new_event) ==
    IF _event_identity(old_event) \in st.agenda_row_overrides
    THEN [st EXCEPT !.agenda_row_overrides =
             (@ \ {_event_identity(old_event)}) \cup {_event_identity(new_event)}]
    ELSE st

\* Index (0-based) of the first event of s with the identity of target, -1 if none.
IdentityIndex(s, target) ==
    IF \E i \in 1..Len(s) : _event_identity(s[i]) = _event_identity(target)
    THEN (CHOOSE i \in 1..Len(s) :
             /\ _event_identity(s[i]) = _event_identity(target)
             /\ \A j \in 1..(i - 1) : _event_identity(s[j]) # _event_identity(target)) - 1
    ELSE -1

_reselect_agenda_event(st, target) ==
    LET visible == _visible_agenda_events(st)
        idx == IdentityIndex(visible, target)
    IN  _ensure_agenda_index_bounds(
            [st EXCEPT !.agenda_index = IF idx >= 0 THEN idx ELSE 0], Len(visible))

_reselect_month_event(st, target) ==
    LET s1 == [st EXCEPT !.month_selected_date = DateOf(target.x)]
        events == _month_events_for_selected_date(s1)
        idx == IdentityIndex(events, target)
    IN  [s1 EXCEPT !.month_event_index =
                       IF idx >= 0 THEN idx ELSE Min(@, Max(Len(events) - 1, 0)),
                   !.month_event_col = Max(0, Min(@, 2))]

_cycle_agenda_bucket(st) ==
    LET options == <<ALL_BUCKET>> \o BUCKETS
        current_idx == IF \E i \in 1..Len(options) : options[i] = st.agenda_bucket_filter
                       THEN CHOOSE i \in 1..Len(options) : options[i] = st.agenda_bucket_filter
                       ELSE 1
        s1 == [st EXCEPT !.agenda_bucket_filter = options[(current_idx % Len(options)) + 1],
                         !.agenda_index = 0, !.agenda_scroll = 0,
                         !.month_event_index = 0, !.month_event_col = 0]
    IN  _ensure_agenda_index_bounds(s1, Len(_visible_agenda_events(s1)))

_toggle_view(st) ==
    LET s1 == [st EXCEPT !.leader = LeaderIdle]
    IN  IF s1.view = "agenda"
        THEN [s1 EXCEPT !.view = "month", !.month_focus = "grid", !.month_event_index = 0]
        ELSE LET s2 == [s1 EXCEPT !.view = "agenda"]
             IN  _ensure_agenda_index_bounds(s2, Len(_visible_agenda_events(s2)))

\* Orchestrator._draw: what painting a frame changes in the state.
_draw(st, term) ==
    IF st.view = "agenda"
    THEN LET visible_events == _visible_agenda_events(st)
             s1 == _ensure_agenda_index_bounds(st, Len(visible_events))
         IN  [s1 EXCEPT !.agenda_scroll =
                 render(visible_events, s1.agenda_index, s1.agenda_scroll,
                        s1.agenda_expand_all, s1.agenda_row_overrides, term[1], term[2])]
    ELSE [st EXCEPT !.month_event_index = clamp_event_index(st, @),
                    !.month_event_col = Max(0, Min(@, 2))]

_show_overlay(st, kind, term) ==
    _draw([st EXCEPT !.overlay = IF kind = "error" THEN "error" ELSE "message"], term)

(***************************************************************************)
(* Key handlers.  A handler maps a machine m = [st, pd, ret, effect,       *)
(* crashed] to the machine it leaves: st is the AppState, pd is            *)
(* _pending_delete, ret is the value returned ("True", "False", "None"),   *)
(* effect names what a delete key did, crashed tells that an exception     *)
(* left the handler uncaught.  e is the environment of the call: e.t the   *)
(* clock reading, e.ed what the editor hands back, e.io the outcome of the *)
(* write to storage, e.term the terminal size <<lines, columns>>.          *)
(***************************************************************************)
Machine(st, pd) == [st |-> st, pd |-> pd, ret |-> "None", effect |-> "none", crashed |-> FALSE]

Ret(m, st, r) == [m EXCEPT !.st = st, !.ret = r]

\* _handle_leader_input that takes every key into the sequence
LeaderAppendsOnly(m, ch, e) ==
    Ret(m, [m.st EXCEPT !.leader.sequence = Append(@, ch),
                        !.leader.started_at_ms = e.t], "True")

_handle_leader_input(m, ch, e) ==
    LET st == m.st
        sequence == Append(st.leader.sequence, ch)
        cancelled == [st EXCEPT !.leader = LeaderIdle]
    IN  IF ch = KEY_ESC THEN Ret(m, cancelled, "True")
        ELSE IF ch < 0 \/ ch > 255 THEN Ret(m, cancelled, "True")
        ELSE IF st.view # "agenda" THEN Ret(m, cancelled, "None")
        ELSE IF sequence = <<KEY_X>> \/ sequence = <<KEY_X, KEY_A>>
        THEN Ret(m, [st EXCEPT !.leader.sequence = sequence,
                               !.leader.started_at_ms = e.t], "True")
        ELSE IF sequence = <<KEY_X, KEY_A, KEY_R>>
        THEN Ret(m, [cancelled EXCEPT !.agenda_expand_all = TRUE,
                                      !.agenda_row_overrides = {}], "True")
        ELSE IF sequence = <<KEY_X, KEY_C>>
        THEN Ret(m, [cancelled EXCEPT !.agenda_expand_all = FALSE,
                                      !.agenda_row_overrides = {}], "True")
        ELSE IF sequence = <<KEY_X, KEY_R>>
        THEN LET visible == _visible_agenda_events(st)
                 idx == Max(0, Min(st.agenda_index, Len(visible) - 1))
                 identity == _event_identity(visible[idx + 1])
             IN  IF visible = <<>> THEN Ret(m, cancelled, "True")
                 ELSE Ret(m, [cancelled EXCEPT !.agenda_row_overrides =
                                 IF identity \in @ THEN @ \ {identity}
                                 ELSE @ \cup {identity}], "True")
        ELSE Ret(m, cancelled, "None")

_perform_delete(m, e) ==
    LET st == m.st
        in_agenda == st.view = "agenda"
        rows == IF in_agenda THEN _visible_agenda_events(st)
                ELSE _month_events_for_selected_date(st)
        idx == IF in_agenda THEN Max(0, Min(st.agenda_index, Len(rows) - 1))
               ELSE Min(st.month_event_index, Len(rows) - 1)
        target == rows[idx + 1]
        s1 == [st EXCEPT !.events = delete_event(st.events, target)]
        s2 == IF in_agenda
              THEN _ensure_agenda_index_bounds(s1, Len(_visible_agenda_events(s1)))
              ELSE [s1 EXCEPT !.month_event_index =
                       Min(@, Max(Len(_month_events_for_selected_date(s1)) - 1, 0))]
    IN  IF ~in_agenda /\ ~(st.view = "month" /\ st.month_focus = "events")
        THEN [m EXCEPT !.ret = "False", !.effect = "no_target"]
        ELSE IF rows = <<>> THEN [m EXCEPT !.ret = "False", !.effect = "no_target"]
        ELSE IF e.io = "fail"
        THEN [m EXCEPT !.st.overlay = "error", !.ret = "True", !.effect = "delete_failed"]
        ELSE [m EXCEPT !.st = _prune_row_overrides(s2), !.ret = "True",
                       !.effect = "deleted"]

\* _handle_delete_key without the arming step: every delete key deletes
DeleteWithoutArming(m, ch, e) ==
    IF ch # KEY_D THEN [m EXCEPT !.pd.active = FALSE, !.ret = "None"]
    ELSE _perform_delete([m EXCEPT !.pd.active = FALSE], e)

\* _handle_delete_key that leaves the flag set when it deletes
DeleteStaysArmed(m, ch, e) ==
    IF ch # KEY_D THEN [m EXCEPT !.pd.active = FALSE, !.ret = "None"]
    ELSE IF m.pd.active /\ e.t - m.pd.started_at <= DELETE_TIMEOUT_MS
    THEN _perform_delete(m, e)
    ELSE [m EXCEPT !.pd = [active |-> TRUE, started_at |-> e.t, target_view |-> m.st.view],
                   !.ret = "False", !.effect = "armed"]

_handle_delete_key(m, ch, e) ==
    IF ch # KEY_D THEN [m EXCEPT !.pd.active = FALSE, !.ret = "None"]
    ELSE IF m.pd.active /\ e.t - m.pd.started_at <= DELETE_TIMEOUT_MS
    THEN _perform_delete([m EXCEPT !.pd.active = FALSE], e)
    ELSE [m EXCEPT !.pd = [active |-> TRUE, started_at |-> e.t, target_view |-> m.st.view],
                   !.ret = "False", !.effect = "armed"]

\* AgendaView.move_selection
move_selection(events, idx, delta) ==
    IF events = <<>> THEN 0 ELSE clamp(idx + delta, 0, Len(events) - 1)

\* AgendaView.clamp_column
clamp_column(col) == clamp(col, 0, COLUMN_COUNT - 1)

\* AgendaView.jump_to_today: the first event at or after datetime.today()
jump_to_today(events, today) ==
    LET later == {i \in 1..Len(events) : events[i].x >= today}
    IN  IF later # {} THEN (CHOOSE i \in later : \A j \in later : i <= j) - 1
        ELSE Max(0, Len(events) - 1)

\* A day jump that moves to the neighbouring row
JumpToNeighbour(m, direction) ==
    [m EXCEPT !.st.agenda_index =
                  move_selection(_visible_agenda_events(m.st), @, direction),
              !.ret = "True"]

\* A day jump to the nearest row of another date, backwards too
JumpToNearestRow(m, direction) ==
    LET visible == _visible_agenda_events(m.st)
        cur == m.st.agenda_index
        others == {i \in 0..(Len(visible) - 1) :
                      /\ (i - cur) * direction > 0
                      /\ DateOf(visible[i + 1].x) # DateOf(visible[cur + 1].x)}
    IN  IF others = {} THEN [m EXCEPT !.ret = "False"]
        ELSE [m EXCEPT !.st.agenda_index =
                           CHOOSE i \in others :
                               \A j \in others : (i - cur) * direction <= (j - cur) * direction,
                       !.ret = "True"]

_agenda_jump_day(m, direction) ==
    LET visible == _visible_agenda_events(m.st)
        cur_idx == Max(0, Min(m.st.agenda_index, Len(visible) - 1))
        cur_day == DateOf(visible[cur_idx + 1].x)
        before == {i \in 0..(cur_idx - 1) : DateOf(visible[i + 1].x) < cur_day}
        idx == CHOOSE i \in before : \A j \in before : j <= i
        first_idx == CHOOSE i \in 0..idx :
                        /\ DateOf(visible[i + 1].x) = DateOf(visible[idx + 1].x)
                        /\ \A j \in 0..(i - 1) :
                              DateOf(visible[j + 1].x) # DateOf(visible[idx + 1].x)
        after == {i \in (cur_idx + 1)..(Len(visible) - 1) : DateOf(visible[i + 1].x) > cur_day}
    IN  IF visible = <<>> THEN [m EXCEPT !.ret = "False"]
        ELSE IF direction < 0
        THEN IF before = {} THEN [m EXCEPT !.ret = "False"]
             ELSE [m EXCEPT !.st.agenda_index = first_idx, !.ret = "True"]
        ELSE IF after = {} THEN [m EXCEPT !.ret = "False"]
             ELSE [m EXCEPT !.st.agenda_index = CHOOSE i \in after : \A j \in after : i <= j,
                            !.ret = "True"]

_handle_agenda_keys(m, ch) ==
    LET visible == _visible_agenda_events(m.st)
    IN  IF ch = KEY_J
        THEN [m EXCEPT !.st.agenda_index = move_selection(visible, @, 1), !.ret = "True"]
        ELSE IF ch = KEY_K
        THEN [m EXCEPT !.st.agenda_index = move_selection(visible, @, -1), !.ret = "True"]
        ELSE IF ch = KEY_H
        THEN [m EXCEPT !.st.agenda_col = clamp_column(@ - 1), !.ret = "True"]
        ELSE IF ch = KEY_L
        THEN [m EXCEPT !.st.agenda_col = clamp_column(@ + 1), !.ret = "True"]
        ELSE IF ch \in {KEY_CAP_H, KEY_CAP_L}
        THEN _agenda_jump_day(m, IF ch = KEY_CAP_H THEN -1 ELSE 1)
        ELSE [m EXCEPT !.ret = "False"]

\* MonthView.move_day / move_week / move_month on day numbers; a month is
\* taken as 30 days.
move_day(selected_date, delta_days) == selected_date + delta_days
move_week(selected_date, delta_weeks) == selected_date + 7 * delta_weeks
move_month(selected_date, delta_months) == selected_date + 30 * delta_months

\* _handle_month_keys with the grid focused
MonthGridKeys(m, ch) ==
    LET st == m.st
        moved(d) == [m EXCEPT !.st.month_selected_date = d,
                              !.st.month_event_index = 0, !.ret = "True"]
    IN  IF ch \in {KEY_NEWLINE, KEY_ENTER}
        THEN IF _month_events_for_selected_date(st) # <<>>
             THEN [m EXCEPT !.st.month_focus = "events",
                            !.st.month_event_index = clamp_event_index(st, @),
                            !.st.month_event_col = Max(0, Min(@, 2)),
                            !.ret = "True"]
             ELSE [m EXCEPT !.ret = "False"]
        ELSE IF ch = KEY_CTRL_H THEN moved(move_month(st.month_selected_date, -1))
        ELSE IF ch = KEY_CTRL_L THEN moved(move_month(st.month_selected_date, 1))
        ELSE IF ch = KEY_CTRL_K THEN moved(move_month(st.month_selected_date, -12))
        ELSE IF ch = KEY_CTRL_J THEN moved(move_month(st.month_selected_date, 12))
        ELSE IF ch = KEY_H THEN moved(move_day(st.month_selected_date, -1))
        ELSE IF ch = KEY_L THEN moved(move_day(st.month_selected_date, 1))
        ELSE IF ch = KEY_J THEN moved(move_week(st.month_selected_date, 1))
        ELSE IF ch = KEY_K THEN moved(move_week(st.month_selected_date, -1))
        ELSE [m EXCEPT !.ret = "False"]

_handle_month_keys(m, ch) ==
    LET st == m.st
    IN  IF st.month_focus = "grid" THEN MonthGridKeys(m, ch)
        ELSE IF ch \in {KEY_NEWLINE, KEY_ENTER}
        THEN [m EXCEPT !.st.month_focus = "grid", !.ret = "True"]
        ELSE IF ch = KEY_H
        THEN [m EXCEPT !.st.month_event_col = Max(0, @ - 1), !.ret = "True"]
        ELSE IF ch = KEY_L
        THEN [m EXCEPT !.st.month_event_col = Min(2, @ + 1), !.ret = "True"]
        ELSE IF ch \in {KEY_CTRL_H, KEY_CTRL_L, KEY_CTRL_J, KEY_CTRL_K}
        THEN MonthGridKeys([m EXCEPT !.st.month_focus = "grid",
                                     !.st.month_event_index = 0], ch)
        ELSE IF ch = KEY_J
        THEN [m EXCEPT !.st.month_event_index = clamp_event_index(st, @ + 1), !.ret = "True"]
        ELSE IF ch = KEY_K
        THEN [m EXCEPT !.st.month_event_index = clamp_event_index(st, @ - 1), !.ret = "True"]
        ELSE [m EXCEPT !.ret = "False"]

_jump_today(m) ==
    LET st == m.st
        visible == _visible_agenda_events(st)
    IN  IF st.view = "agenda"
        THEN IF visible = <<>>
             THEN [m EXCEPT !.st.agenda_index = 0, !.st.agenda_scroll = 0, !.ret = "True"]
             ELSE Ret(m, _ensure_agenda_index_bounds(
                             [st EXCEPT !.agenda_index = jump_to_today(visible, TODAY)],
                             Len(visible)), "True")
        ELSE [m EXCEPT !.st.month_selected_date = DateOf(TODAY),
                       !.st.month_event_index = 0, !.ret = "True"]

(***************************************************************************)
(* Editing.  e.ed = [ok, stamp, text, bucket, events]: ok is the editor's  *)
(* success; stamp, text and bucket are the stripped payload read as a      *)
(* timestamp (None when it does not parse), as a text (<<>> when blank)    *)
(* and as a bucket name ("" when blank); events are the records parsed     *)
(* from a whole-record payload.  A write that fails raises OSError out of  *)
(* store._write_atomic, which no caller catches.                           *)
(***************************************************************************)
\* The tail shared by the four cell editors: upsert, then reselect.
StoreEdit(m, event, updated_event, e) ==
    LET Stored(s1) == [s1 EXCEPT !.events = upsert_event(@, updated_event, TRUE, event)]
        Reselect(s2) == IF s2.view = "agenda" THEN _reselect_agenda_event(s2, updated_event)
                        ELSE _reselect_month_event(s2, updated_event)
    IN  IF e.io = "fail" THEN [m EXCEPT !.crashed = TRUE]
        ELSE Ret(m, _prune_row_overrides(
                        Reselect(Stored(_replace_row_override(m.st, event, updated_event)))),
                 "True")

\* A cell edit that stores a blank text
EditCellStoresBlank(m, event, column, e) ==
    IF ~e.ed.ok \/ (column = 0 /\ e.ed.stamp \in {None, event.x}) THEN [m EXCEPT !.ret = "True"]
    ELSE StoreEdit(m, event,
                   IF column = 0 THEN with_updated_x(event, e.ed.stamp)
                   ELSE IF column = 1 THEN with_updated_y(event, e.ed.text)
                   ELSE with_updated_z(event, e.ed.text),
                   e)

\* The cell edit of column `column` of event with the payload of e.ed
EditCell(m, event, column, e) ==
    LET unchanged == IF column = 0 THEN e.ed.stamp = None \/ e.ed.stamp = event.x
                     ELSE IF column = 1 THEN e.ed.text = event.y
                     ELSE e.ed.text = event.z
        updated_event == IF column = 0 THEN with_updated_x(event, e.ed.stamp)
                         ELSE IF column = 1 THEN with_updated_y(event, e.ed.text)
                         ELSE with_updated_z(event, e.ed.text)
    IN  IF ~e.ed.ok \/ e.ed.text = <<>> \/ unchanged THEN [m EXCEPT !.ret = "True"]
        ELSE StoreEdit(m, event, updated_event, e)

\* The bucket edit of event with the payload of e.ed
EditBucket(m, event, e) ==
    IF ~e.ed.ok \/ e.ed.bucket = "" THEN [m EXCEPT !.ret = "True"]
    ELSE IF e.ed.bucket \notin Range(BUCKETS)
    THEN Ret(m, _show_overlay(m.st, "error", e.term), "True")
    ELSE IF e.ed.bucket = event.bucket THEN [m EXCEPT !.ret = "True"]
    ELSE StoreEdit(m, event, with_updated_bucket(event, e.ed.bucket), e)

_edit_agenda_cell(m, e) ==
    LET visible == _visible_agenda_events(m.st)
        idx == Max(0, Min(m.st.agenda_index, Len(visible) - 1))
        column == Max(0, Min(m.st.agenda_col, COLUMN_COUNT - 1))
    IN  IF visible = <<>> THEN [m EXCEPT !.ret = "False"]
        ELSE EditCell([m EXCEPT !.st.agenda_col = column], visible[idx + 1], column, e)

_edit_agenda_bucket(m, e) ==
    LET visible == _visible_agenda_events(m.st)
        idx == Max(0, Min(m.st.agenda_index, Len(visible) - 1))
    IN  IF visible = <<>> THEN [m EXCEPT !.ret = "False"]
        ELSE EditBucket(m, visible[idx + 1], e)

_edit_month_cell(m, e) ==
    LET events == _month_events_for_selected_date(m.st)
        idx == Max(0, Min(m.st.month_event_index, Len(events) - 1))
        column == Max(0, Min(m.st.month_event_col, 2))
    IN  IF events = <<>> THEN [m EXCEPT !.ret = "False"]
        ELSE EditCell([m EXCEPT !.st.month_event_col = column], events[idx + 1], column, e)

_edit_month_bucket(m, e) ==
    LET events == _month_events_for_selected_date(m.st)
        idx == Max(0, Min(m.st.month_event_index, Len(events) - 1))
    IN  IF events = <<>> THEN [m EXCEPT !.ret = "False"]
        ELSE EditBucket(m, events[idx + 1], e)

\* upsert_event of each record of updated_events in turn, none an overwrite
RECURSIVE UpsertAll(_, _)
UpsertAll(events, updated_events) ==
    IF updated_events = <<>> THEN events
    ELSE UpsertAll(upsert_event(events, Head(updated_events), FALSE, Head(updated_events)),
                   Tail(updated_events))

\* _edit_or_create(force_new=True), the only way it is called
_edit_or_create(m, e) ==
    LET st == m.st
        updated_events == e.ed.events
        s1 == [st EXCEPT !.events = UpsertAll(st.events, updated_events)]
        s2 == IF st.view = "agenda"
              THEN IF updated_events # <<>>
                   THEN _reselect_agenda_event(s1, updated_events[1]) ELSE s1
              ELSE [s1 EXCEPT !.month_event_index = 0]
    IN  IF ~e.ed.ok THEN [m EXCEPT !.ret = "True"]
        ELSE IF updated_events # <<>> /\ e.io = "fail" THEN [m EXCEPT !.crashed = TRUE]
        ELSE [m EXCEPT !.st = _prune_row_overrides(s2), !.pd.active = FALSE, !.ret = "True"]

(***************************************************************************)
(* _handle_key                                                             *)
(***************************************************************************)
\* _handle_key from `if ch == KEY_HELP` on (after _handle_delete_key)
ViewKeys(m, ch, e) ==
    LET st == m.st
        events_focus == st.view = "month" /\ st.month_focus = "events"
    IN  IF ch = KEY_HELP THEN [m EXCEPT !.st.overlay = "help", !.ret = "True"]
        ELSE IF ch = KEY_ESC
        THEN [m EXCEPT !.st.month_focus = IF events_focus THEN "grid" ELSE @,
                       !.st.overlay = "none",
                       !.st.leader = LeaderIdle,
                       !.pd.active = FALSE,
                       !.ret = "True"]
        ELSE IF ch = KEY_TODAY THEN _jump_today(m)
        ELSE IF ch = KEY_I
        THEN IF st.view = "agenda"
             THEN IF _visible_agenda_events(st) = <<>> THEN _edit_or_create(m, e)
                  ELSE _edit_agenda_cell(m, e)
             ELSE IF events_focus
             THEN IF _month_events_for_selected_date(st) = <<>> THEN _edit_or_create(m, e)
                  ELSE _edit_month_cell(m, e)
             ELSE [m EXCEPT !.ret = "False"]
        ELSE IF ch = KEY_CAP_B
        THEN IF st.view = "agenda" THEN _edit_agenda_bucket(m, e)
             ELSE IF events_focus THEN _edit_month_bucket(m, e)
             ELSE [m EXCEPT !.ret = "False"]
        ELSE IF st.view = "agenda" THEN _handle_agenda_keys(m, ch)
        ELSE _handle_month_keys(m, ch)

\* _handle_key from `if ch == KEY_LEADER` on (after the leader handling)
Dispatch(m, ch, e) ==
    IF ch = KEY_LEADER
    THEN [m EXCEPT !.st.leader = [active |-> TRUE, started_at_ms |-> e.t, sequence |-> <<>>],
                   !.ret = "True"]
    ELSE IF ch = KEY_TAB THEN Ret(m, _cycle_agenda_bucket(m.st), "True")
    ELSE IF ch = KEY_N THEN _edit_or_create(m, e)
    ELSE IF ch = KEY_A THEN Ret(m, _toggle_view(m.st), "True")
    ELSE LET AfterDelete(handled_delete) ==
                 IF handled_delete.ret # "None" THEN handled_delete
                 ELSE ViewKeys(handled_delete, ch, e)
         IN  AfterDelete(_handle_delete_key(m, ch, e))

\* _handle_key with a help overlay that swallows keys like the others
HelpOverlayModal(m, ch, e) ==
    IF m.st.overlay \in {"help", "error", "message"}
    THEN [m EXCEPT !.st.overlay = "none", !.ret = "True"]
    ELSE LET AfterLeader(leader_handled) ==
                 IF leader_handled.ret # "None" THEN leader_handled
                 ELSE Dispatch(leader_handled, ch, e)
         IN  AfterLeader(IF m.st.leader.active THEN _handle_leader_input(m, ch, e) ELSE m)

_handle_key(m, ch, e) ==
    IF m.st.overlay = "help" /\ ch = KEY_ESC
    THEN [m EXCEPT !.st.overlay = "none", !.ret = "True"]
    ELSE IF m.st.overlay \in {"error", "message"}
    THEN [m EXCEPT !.st.overlay = "none", !.ret = "True"]
    ELSE LET AfterLeader(leader_handled) ==
                 IF leader_handled.ret # "None" THEN leader_handled
                 ELSE Dispatch(leader_handled, ch, e)
         IN  AfterLeader(IF m.st.leader.active THEN _handle_leader_input(m, ch, e) ELSE m)

(***************************************************************************)
(* The loop of _curses_main                                                *)
(***************************************************************************)
\* _maybe_timeout_leader that lets a started sequence wait for ever
TimeoutEmptySequenceOnly(st, now_ms) ==
    IF st.leader.active /\ st.leader.sequence = <<>>
       /\ now_ms - st.leader.started_at_ms > LEADER_TIMEOUT_MS
    THEN [st EXCEPT !.leader = LeaderIdle]
    ELSE st

_maybe_timeout_leader(st, now_ms) ==
    IF st.leader.active /\ st.leader.started_at_ms # None /\ st.leader.started_at_ms # 0
       /\ now_ms - st.leader.started_at_ms > LEADER_TIMEOUT_MS
    THEN [st EXCEPT !.leader = LeaderIdle]
    ELSE st

\* _maybe_timeout_delete measuring against the leader's timeout
TimeoutDeleteByLeaderWindow(pd, now_ms) ==
    IF pd.active /\ now_ms - pd.started_at > LEADER_TIMEOUT_MS
    THEN [pd EXCEPT !.active = FALSE]
    ELSE pd

_maybe_timeout_delete(pd, now_ms) ==
    IF pd.active /\ now_ms - pd.started_at > DELETE_TIMEOUT_MS
    THEN [pd EXCEPT !.active = FALSE]
    ELSE pd

\* One iteration that reads the key ch at time e.t: the two timeouts, the
\* quit test, _handle_key, and _draw when the key was handled.  The result
\* has effect "quit" when the loop is left.
Iteration(st, pd, ch, e) ==
    LET After(m0, m1) ==
            IF ch \in {KEY_Q, KEY_CAP_Q} THEN [m0 EXCEPT !.effect = "quit"]
            ELSE IF m1.crashed THEN [m0 EXCEPT !.crashed = TRUE, !.effect = "crashed"]
            ELSE IF m1.ret = "True" THEN [m1 EXCEPT !.st = _draw(@, e.term)]
            ELSE m1
        Handle(m0) == After(m0, _handle_key(m0, ch, e))
    IN  Handle(Machine(_maybe_timeout_leader(st, e.t), _maybe_timeout_delete(pd, e.t)))

(***************************************************************************)
(* Bounds and the environment                                              *)
(***************************************************************************)
MaxEvents == 3          \* records held at once
MaxKeys == 4            \* keys read in one run of Spec
MaxTimedKeys == 3       \* keys read in one run of SpecTimed
MaxPauses == 1          \* long pauses in one run of Spec
MaxTicks == 12          \* idle polls in one run of SpecTimed
TermLines == 5          \* terminal height
TermCols == 40          \* terminal width

\* The clock reading when the loop starts
START_MS == 5000

\* A pause that outlasts both timeouts
PAUSE_MS == LEADER_TIMEOUT_MS + POLL_MS

\* Dates the month cursor may visit
DateWindow == {DateOf(TODAY) + d : d \in {0, 1, 7, 30}}

\* Records on file at start-up and records an editing session may produce
RecA == Event("personal_development", 12, <<97, 97, 97, 97, 32, 98, 98, 98, 98>>, <<122>>)
RecB == Event("economic", 17, <<98>>, <<121, 10, 121>>)
RecC == Event("thing", 21, <<99>>, <<120>>)
RecNew == Event("economic", 22, <<110>>, <<110>>)

InitialEventLists == {<<>>, <<RecA, RecB, RecC>>}

EdFail == [ok |-> FALSE, stamp |-> None, text |-> <<>>, bucket |-> "", events |-> <<>>]
EdBlank == [ok |-> TRUE, stamp |-> None, text |-> <<>>, bucket |-> "", events |-> <<>>]
EdBad == [ok |-> TRUE, stamp |-> None, text |-> RecNew.y, bucket |-> "bogus", events |-> <<>>]
EdGood == [ok |-> TRUE, stamp |-> RecNew.x, text |-> RecNew.y, bucket |-> RecNew.bucket,
           events |-> <<RecNew>>]
\* What an editing session and the write after it can come to
EditOutcomes == ({EdFail, EdBlank, EdBad, EdGood} \X {"ok"}) \cup {<<EdGood, "fail">>}

\* KEY_OTHER is a key bound to nothing.  The keys of SequenceKeys are bound
\* to nothing outside a leader sequence (there they act as KEY_OTHER, or as
\* KEY_NEWLINE for KEY_ENTER), so they are typed only while one is pending.
KEY_OTHER == 122
EditKeys == {KEY_I, KEY_CAP_B, KEY_N}
QuitKeys == {KEY_Q, KEY_CAP_Q}
PlainKeys == {KEY_HELP, KEY_TODAY, KEY_LEADER, KEY_ESC, KEY_TAB, KEY_A, KEY_H, KEY_J,
              KEY_K, KEY_L, KEY_CTRL_H, KEY_CTRL_L, KEY_NEWLINE, KEY_CAP_H, KEY_CAP_L,
              KEY_OTHER}
SequenceKeys == {KEY_X, KEY_R, KEY_C, KEY_ENTER}
TimedKeys == {KEY_D, KEY_LEADER, KEY_X, KEY_A}

Env(t, ed, io) == [t |-> t, ed |-> ed, io |-> io, term |-> <<TermLines, TermCols>>]

(***************************************************************************)
(* The state machine                                                       *)
(***************************************************************************)
\* hist: op is the kind of the last iteration, ch the last key read, effect
\* what the last iteration did with a delete key (or "quit", "crashed"),
\* expired the timeouts that fired in it, last_d and prev_d the times of the
\* last two delete keys read, leader_at the time of the leader key that
\* started the pending sequence, keys the number of keys read so far.
HistInit ==
    [op |-> "init", ch |-> None, effect |-> "none", expired |-> {}, last_d |-> None,
     prev_d |-> None, leader_at |-> None, keys |-> 0]

\* The timeouts that fire in an iteration at time t
Expired(t) ==
    (IF _maybe_timeout_leader(state, t) # state THEN {"leader"} ELSE {})
    \cup (IF _maybe_timeout_delete(pending_delete, t) # pending_delete THEN {"delete"} ELSE {})

Start(events, overlay) ==
    /\ state = _draw(AppState(events, overlay), <<TermLines, TermCols>>)
    /\ pending_delete = [active |-> FALSE, started_at |-> 0, target_view |-> "agenda"]
    /\ now = START_MS
    /\ running = TRUE
    /\ hist = HistInit
    /\ pin = <<>>
    /\ pout = <<>>

\* load_events succeeded with one of the lists, or failed (error overlay)
Init ==
    \/ \E events \in InitialEventLists : Start(events, "none")
    \/ Start(<<>>, "error")

\* One loop iteration reading key ch, dt ms after the previous one
KeyStep(ch, dt, ed, io, max_keys, max_ms) ==
    \E r \in {Iteration(state, pending_delete, ch, Env(now + dt, ed, io))} :
        /\ running
        /\ hist.keys < max_keys
        /\ now + dt <= START_MS + max_ms
        /\ r.st.month_selected_date \in DateWindow
        /\ Len(r.st.events) <= MaxEvents
        /\ state' = r.st
        /\ pending_delete' = r.pd
        /\ now' = now + dt
        /\ running' = (~r.crashed /\ r.effect # "quit")
        /\ hist' = [op |-> "key", ch |-> ch, effect |-> r.effect,
                    expired |-> Expired(now + dt),
                    last_d |-> IF ch = KEY_D THEN now + dt ELSE hist.last_d,
                    prev_d |-> IF ch = KEY_D THEN hist.last_d ELSE hist.prev_d,
                    leader_at |-> IF ~r.st.leader.active THEN None
                                  ELSE IF ch = KEY_LEADER /\ r.st.leader.sequence = <<>>
                                       THEN now + dt
                                       ELSE hist.leader_at,
                    keys |-> hist.keys + 1]
        /\ UNCHANGED <<pin, pout>>

\* One loop iteration in which getch times out, dt ms after the previous one
IdleStep(dt, max_ms) ==
    /\ running
    /\ now + dt <= START_MS + max_ms
    /\ state' = _maybe_timeout_leader(state, now + dt)
    /\ pending_delete' = _maybe_timeout_delete(pending_delete, now + dt)
    /\ now' = now + dt
    /\ hist' = [hist EXCEPT !.op = "idle", !.effect = "none",
                            !.expired = Expired(now + dt),
                            !.leader_at = IF state'.leader.active THEN @ ELSE None]
    /\ UNCHANGED <<running, pin, pout>>

\* A long pause.  With no sequence pending and nothing armed a pause only
\* moves the clock, and the runs after it are the runs without it shifted
\* in time, so pauses are taken while something is pending.
Idle ==
    /\ state.leader.active \/ pending_delete.active
    /\ IdleStep(PAUSE_MS, MaxPauses * PAUSE_MS)

Quit == \E ch \in QuitKeys : KeyStep(ch, 0, EdFail, "ok", MaxKeys, MaxPauses * PAUSE_MS)

PlainKey ==
    \E ch \in PlainKeys \cup (IF state.leader.active THEN SequenceKeys ELSE {}) :
        KeyStep(ch, 0, EdFail, "ok", MaxKeys, MaxPauses * PAUSE_MS)

EditKey ==
    \E ch \in EditKeys, out \in EditOutcomes :
        KeyStep(ch, 0, out[1], out[2], MaxKeys, MaxPauses * PAUSE_MS)

DeleteKey == \E io \in {"ok", "fail"} : KeyStep(KEY_D, 0, EdFail, io, MaxKeys, MaxPauses * PAUSE_MS)

Next == Idle \/ Quit \/ PlainKey \/ EditKey \/ DeleteKey

Spec == Init /\ [][Next]_vars

\* The same loop with the clock advancing one poll at a time
TimedInit == Start(<<RecA, RecB>>, "none")

TimedIdle == IdleStep(POLL_MS, MaxTicks * POLL_MS)

TimedKey == \E ch \in TimedKeys : KeyStep(ch, 0, EdFail, "ok", MaxTimedKeys, MaxTicks * POLL_MS)

TimedNext == TimedIdle \/ TimedKey

SpecTimed == TimedInit /\ [][TimedNext]_vars

\* The same loop from the agenda, where KEY_A takes it from start-up,
\* reading the keys that select, edit and delete records
MaxAgendaKeys == 4      \* keys read in one run of SpecAgenda

AgendaInit ==
    \E events \in {<<>>, <<RecB, RecB>>, <<RecA, RecB, RecC>>,
                    <<RecA, with_updated_bucket(RecB, RecA.bucket),
                      with_updated_bucket(RecC, RecA.bucket)>>} :
        /\ state = _draw(_toggle_view(AppState(events, "none")), <<TermLines, TermCols>>)
        /\ pending_delete = [active |-> FALSE, started_at |-> 0, target_view |-> "agenda"]
        /\ now = START_MS
        /\ running = TRUE
        /\ hist = HistInit
        /\ pin = <<>>
        /\ pout = <<>>

AgendaNext ==
    \/ \E ch \in {KEY_J, KEY_K, KEY_L, KEY_CAP_H, KEY_CAP_L, KEY_TAB, KEY_A} :
          KeyStep(ch, 0, EdFail, "ok", MaxAgendaKeys, 0)
    \/ \E ch \in EditKeys, out \in EditOutcomes :
          KeyStep(ch, 0, out[1], out[2], MaxAgendaKeys, 0)
    \/ \E io \in {"ok", "fail"} : KeyStep(KEY_D, 0, EdFail, io, MaxAgendaKeys, 0)

SpecAgenda == AgendaInit /\ [][AgendaNext]_vars

\* The loop from the agenda with the terminal resized between frames:
\* getmaxyx gives each frame its own size, kept in pin
MaxFrameKeys == 3       \* keys read in one run of SpecFrames

FrameInit ==
    \E term \in {<<TermLines, TermCols>>, <<3, TermCols>>} :
        /\ state = _draw(_toggle_view(AppState(<<RecA, RecB, RecC>>, "none")), term)
        /\ pending_delete = [active |-> FALSE, started_at |-> 0, target_view |-> "agenda"]
        /\ now = START_MS
        /\ running = TRUE
        /\ hist = HistInit
        /\ pin = term
        /\ pout = <<>>

FrameKey ==
    \E ch \in {KEY_J, KEY_K, KEY_L, KEY_TAB, KEY_A, KEY_D, KEY_CAP_B} :
    \E ed \in {EdFail, EdGood} :
    \E term \in {<<TermLines, TermCols>>, <<3, TermCols>>, <<2, TermCols>>, <<1, TermCols>>,
                  <<TermLines, 6>>, <<TermLines, 1>>} :
    \E r \in {Iteration(state, pending_delete, ch, [Env(now, ed, "ok") EXCEPT !.term = term])} :
        /\ running
        /\ hist.keys < MaxFrameKeys
        /\ state' = r.st
        /\ pending_delete' = r.pd
        /\ running' = (~r.crashed /\ r.effect # "quit")
        /\ hist' = [hist EXCEPT !.op = "key", !.ch = ch, !.effect = r.effect,
                                !.keys = @ + 1]
        /\ pin' = term
        /\ UNCHANGED <<now, pout>>

SpecFrames == FrameInit /\ [][FrameKey]_vars

\* The loop from the agenda reading the keys that expand and collapse rows
\* and those that change the record list
MaxOverrideKeys == 6    \* keys read in one run of SpecOverrides

OverrideInit ==
    /\ state = _draw(_toggle_view(AppState(<<RecA, RecB, RecC>>, "none")),
                     <<TermLines, TermCols>>)
    /\ pending_delete = [active |-> FALSE, started_at |-> 0, target_view |-> "agenda"]
    /\ now = START_MS
    /\ running = TRUE
    /\ hist = HistInit
    /\ pin = <<>>
    /\ pout = <<>>

OverrideNext ==
    \/ \E ch \in {KEY_LEADER, KEY_X, KEY_R, KEY_A, KEY_J} :
          KeyStep(ch, 0, EdFail, "ok", MaxOverrideKeys, 0)
    \/ \E ch \in EditKeys, out \in {<<EdFail, "ok">>, <<EdGood, "ok">>, <<EdGood, "fail">>} :
          KeyStep(ch, 0, out[1], out[2], MaxOverrideKeys, 0)
    \/ \E io \in {"ok", "fail"} : KeyStep(KEY_D, 0, EdFail, io, MaxOverrideKeys, 0)

SpecOverrides == OverrideInit /\ [][OverrideNext]_vars

(***************************************************************************)
(* The visible-row computation and the column layout on their own          *)
(***************************************************************************)
MaxRows == 4            \* rows of a frame
MaxRowHeight == 3       \* lines of one row
MaxDataHeight == 5      \* lines of the viewport
MaxUsableWidth == 50    \* columns available to the layout
MaxDataLen == 24        \* length of the longest sample of a column

\* The program state plays no part in the two computations
PureInit(input) ==
    /\ state = AppState(<<>>, "none")
    /\ pending_delete = [active |-> FALSE, started_at |-> 0, target_view |-> "agenda"]
    /\ now = START_MS
    /\ running = TRUE
    /\ hist = HistInit
    /\ pin = input
    /\ pout = [done |-> FALSE]

RowHeightLists == UNION {[1..n -> 1..MaxRowHeight] : n \in 1..MaxRows}

VisibleInit ==
    \E pane \in {"agenda", "month"}, row_heights \in RowHeightLists,
       data_height \in 1..MaxDataHeight, previous_scroll \in (0 - 1)..MaxRows :
        \E selected \in 0..(Len(row_heights) - 1) :
            PureInit([pane |-> pane, row_heights |-> row_heights,
                      data_height |-> data_height, selected |-> selected,
                      previous_scroll |-> previous_scroll])

AgendaRows ==
    /\ pin.pane = "agenda"
    /\ ~pout.done
    /\ pout' = [done |-> TRUE,
                visible |-> AgendaVisible(pin.row_heights, pin.data_height, pin.selected,
                                          pin.previous_scroll).visible,
                scroll |-> AgendaVisible(pin.row_heights, pin.data_height, pin.selected,
                                         pin.previous_scroll).scroll]
    /\ UNCHANGED <<state, pending_delete, now, running, hist, pin>>

MonthRows ==
    /\ pin.pane = "month"
    /\ ~pout.done
    /\ pout' = [done |-> TRUE,
                visible |-> MonthVisible(pin.row_heights, pin.data_height,
                                         pin.selected).visible,
                scroll |-> MonthVisible(pin.row_heights, pin.data_height,
                                        pin.selected).scroll]
    /\ UNCHANGED <<state, pending_delete, now, running, hist, pin>>

VisibleNext == AgendaRows \/ MonthRows

SpecVisible == VisibleInit /\ [][VisibleNext]_vars

\* C2: the rows the agenda and the month pane draw include the selected row.
C2_SelectionVisible == pout.done => pin.selected \in Range(pout.visible)

\* The selected row is taller than the viewport and is the one row drawn
C2_Witness ==
    /\ pout.done
    /\ pin.row_heights[pin.selected + 1] > pin.data_height
    /\ pin.selected > 0
    /\ pout.visible = <<pin.selected>>

\* C26: the scroll offset returned by the visible-row computation is never
\* greater than the selected index; the visible rows are the contiguous run
\* of row indices starting at that offset, never empty when rows exist; and
\* their heights sum to at most the viewport height, unless the run is one
\* row that alone exceeds it.
C26_VisibleWindow ==
    pout.done =>
        /\ pout.scroll <= pin.selected
        /\ pout.visible # <<>>
        /\ pout.visible = [i \in 1..Len(pout.visible) |-> pout.scroll + i - 1]
        /\ \/ _height_sum(pin.row_heights, pout.visible) <= pin.data_height
           \/ /\ Len(pout.visible) = 1
              /\ pin.row_heights[pout.visible[1] + 1] > pin.data_height

\* Heights [1, 3, 1] in a viewport of 5 lines with the last row selected and
\* the scroll at 0: rows 0, 1 and 2 are drawn
C26_Witness ==
    /\ pout.done /\ pin.pane = "agenda"
    /\ pin.row_heights = <<1, 3, 1>> /\ pin.data_height = 5
    /\ pin.selected = 2 /\ pin.previous_scroll = 0
    /\ pout.scroll = 0 /\ pout.visible = <<0, 1, 2>>

\* C27: the scroll offset s the agenda returns after the pull-back is
\* settled: s = 0, or the window starting at s - 1 would not contain the
\* selected index or would not fit the viewport height; and the selected
\* index is still among the rows drawn.
C27_PullBackSettled ==
    (pout.done /\ pin.pane = "agenda") =>
        /\ \/ pout.scroll = 0
           \/ pin.selected \notin
                  Range(compute_visible(pin.row_heights, pin.data_height, pout.scroll - 1))
           \/ _height_sum(pin.row_heights,
                          compute_visible(pin.row_heights, pin.data_height, pout.scroll - 1))
                  > pin.data_height
        /\ pin.selected \in Range(pout.visible)
        /\ pout.visible = compute_visible(pin.row_heights, pin.data_height, pout.scroll)

\* The window was pulled back by two rows or more and did not reach row 0
C27_Witness ==
    /\ pout.done /\ pin.pane = "agenda"
    /\ pin.previous_scroll = pin.selected
    /\ pout.scroll > 0
    /\ pout.scroll + 2 <= pin.selected

\* C28: for every list of row heights, every viewport height >= 1 and every
\* selected index, the agenda (from any previous scroll offset) and the
\* events pane of the month view draw the same ordered list of row indices.
C28_SameRowsInBothViews ==
    pout.done =>
        pout.visible =
            IF pin.pane = "agenda"
            THEN MonthVisible(pin.row_heights, pin.data_height, pin.selected).visible
            ELSE AgendaVisible(pin.row_heights, pin.data_height, pin.selected,
                               pin.previous_scroll).visible

\* The agenda came from a scroll offset below the rows it ends up drawing,
\* which are several and do not start at row 0
C28_Witness ==
    /\ pout.done /\ pin.pane = "agenda"
    /\ pin.previous_scroll > pout.scroll
    /\ pout.scroll > 0
    /\ Len(pout.visible) >= 2
    /\ pin.row_heights[pin.selected + 1] > 1

\* C34: the scroll offset and the rows the agenda returns depend on the row
\* heights, the viewport height and the selected index only: a run from any
\* other previous scroll offset returns the same.
C34_PreviousScrollForgotten ==
    (pout.done /\ pin.pane = "agenda") =>
        \A other_scroll \in (0 - 1)..MaxRows :
            AgendaVisible(pin.row_heights, pin.data_height, pin.selected, other_scroll)
                = [scroll |-> pout.scroll, visible |-> pout.visible]

\* A run that came from the last row as previous scroll offset and ends
\* with the window between the first row and the selected row
C34_Witness ==
    /\ pout.done /\ pin.pane = "agenda"
    /\ pin.previous_scroll >= Len(pin.row_heights) - 1
    /\ pin.selected = Len(pin.row_heights) - 1
    /\ pout.scroll >= 1 /\ pout.scroll < pin.selected

DataLens == {0, 1, MaxDataLen \div 2, MaxDataLen}

LayoutInit ==
    \E pane \in {"agenda", "month"}, data_lens \in [1..COLUMN_COUNT -> DataLens],
       usable_w \in COLUMN_COUNT..MaxUsableWidth :
        PureInit([pane |-> pane, data_lens |-> data_lens, usable_w |-> usable_w])

AgendaLayout ==
    /\ pin.pane = "agenda"
    /\ ~pout.done
    /\ pout' = LET Phases(initial, widest) ==
                        [done |-> TRUE,
                         layout |-> ComputeLayout(MIN_WIDTHS, MAX_WIDTHS, HEADER_LENS,
                                                  pin.data_lens, pin.usable_w),
                         initial |-> initial,
                         widest |-> widest,
                         round_robin |-> ShrinkRoundRobin(widest, 1, pin.usable_w)]
                    Shrunk(initial) ==
                        Phases(initial, ShrinkWidest(initial, MIN_WIDTHS, pin.usable_w))
                IN  Shrunk(InitialWidths(MIN_WIDTHS, MAX_WIDTHS, HEADER_LENS, pin.data_lens))
    /\ UNCHANGED <<state, pending_delete, now, running, hist, pin>>

MonthLayout ==
    /\ pin.pane = "month"
    /\ ~pout.done
    /\ pout' = LET Phases(initial, widest) ==
                        [done |-> TRUE,
                         layout |-> ComputeLayout(MONTH_MIN_WIDTHS, MONTH_MAX_WIDTHS, HEADER_LENS,
                                                  pin.data_lens, pin.usable_w),
                         initial |-> initial,
                         widest |-> widest,
                         round_robin |-> ShrinkRoundRobin(widest, 1, pin.usable_w)]
                    Shrunk(initial) ==
                        Phases(initial, ShrinkWidest(initial, MONTH_MIN_WIDTHS, pin.usable_w))
                IN  Shrunk(InitialWidths(MONTH_MIN_WIDTHS, MONTH_MAX_WIDTHS, HEADER_LENS, pin.data_lens))
    /\ UNCHANGED <<state, pending_delete, now, running, hist, pin>>

LayoutNext == AgendaLayout \/ MonthLayout

SpecLayout == LayoutInit /\ [][LayoutNext]_vars

\* C3: a layout that a frame is drawn with has every width at least 1 and
\* fits, gaps included, in the available width.
C3_LayoutFits ==
    (pout.done /\ ~pout.layout.skip)
    => /\ \A i \in 1..COLUMN_COUNT : pout.layout.widths[i] >= 1
       /\ TotalWidth(pout.layout.widths) <= pin.usable_w

\* A frame is drawn with columns shrunk below their minimum to fit
C3_Witness ==
    /\ pout.done
    /\ pin.pane = "agenda"
    /\ ~pout.layout.skip
    /\ TotalWidth(pout.layout.widths) = pin.usable_w
    /\ \E i \in 1..COLUMN_COUNT : pout.layout.widths[i] < MIN_WIDTHS[i]

\* The minimum widths of the pane whose layout is computed
PaneMinWidths == IF pin.pane = "agenda" THEN MIN_WIDTHS ELSE MONTH_MIN_WIDTHS

\* C29: when the initial widths and gaps exceed the available width, the
\* first shrink phase takes one column at a time from the widest column,
\* the lowest index among equally wide ones, and goes on until the total
\* fits or no column is above its minimum.  So: no column goes below its
\* minimum or above its initial width; the phase ends with the total equal
\* to the available width, or with every column at its minimum; and a
\* column that was shrunk ends no narrower than any column to its left and
\* at most one narrower than any column to its right.
C29_WidestShrunkFirst ==
    (pout.done /\ TotalWidth(pout.initial) > pin.usable_w) =>
        /\ \A i \in 1..COLUMN_COUNT :
              PaneMinWidths[i] <= pout.widest[i] /\ pout.widest[i] <= pout.initial[i]
        /\ \/ TotalWidth(pout.widest) = pin.usable_w
           \/ /\ TotalWidth(pout.widest) > pin.usable_w
              /\ \A i \in 1..COLUMN_COUNT : pout.widest[i] = PaneMinWidths[i]
        /\ \A j \in 1..COLUMN_COUNT :
              pout.widest[j] < pout.initial[j] =>
                  /\ \A i \in 1..(j - 1) : pout.widest[i] <= pout.widest[j]
                  /\ \A i \in (j + 1)..COLUMN_COUNT : pout.widest[i] <= pout.widest[j] + 1

\* Two equally wide columns were shrunk, the left one once more than the
\* right one, and the total came to fit with a column left above its minimum
C29_Witness ==
    /\ pout.done
    /\ TotalWidth(pout.initial) > pin.usable_w
    /\ TotalWidth(pout.widest) = pin.usable_w
    /\ \E i, j \in 1..COLUMN_COUNT :
          /\ i < j
          /\ pout.initial[i] = pout.initial[j]
          /\ pout.widest[i] + 1 = pout.widest[j]
          /\ pout.widest[j] < pout.initial[j]
          /\ pout.widest[i] > PaneMinWidths[i]

MaxTextLen == 4         \* characters of a text
MaxWrapWidth == 3       \* width of a column

WrapInit ==
    \E n \in 0..MaxTextLen, width \in 1..MaxWrapWidth :
        \E text \in [1..n -> {97, SPACE, TAB, NEWLINE}] :
            PureInit([text |-> text, width |-> width])

\* lines is what _wrap_text returns, units the lines it appends for each
\* wrap unit in turn
WrapText ==
    /\ ~pout.done
    /\ pout' = [done |-> TRUE,
                lines |-> _wrap_text(pin.text, pin.width),
                units |-> [i \in 1..Len(HardBreakUnits(pin.text)) |->
                              WrapParts(<<HardBreakUnits(pin.text)[i]>>, pin.width)]]
    /\ UNCHANGED <<state, pending_delete, now, running, hist, pin>>

SpecWrap == WrapInit /\ [][WrapText]_vars

\* The lines of one unit put end to end, and the units joined by NEWLINE
RECURSIVE ConcatLines(_)
ConcatLines(lines) ==
    IF lines = <<>> THEN <<>> ELSE Head(lines) \o ConcatLines(Tail(lines))

RECURSIVE JoinUnits(_)
JoinUnits(units) ==
    IF units = <<>> THEN <<>>
    ELSE IF Len(units) = 1 THEN ConcatLines(Head(units))
    ELSE ConcatLines(Head(units)) \o <<NEWLINE>> \o JoinUnits(Tail(units))

\* C20 as stated: for every text and every width >= 1, the lines of each
\* wrap unit put end to end and the units joined by the line break give
\* the text back.
C20_WrapLossless == pout.done => JoinUnits(pout.units) = pin.text

MaxStored == 2          \* records of a list written to the file
MaxStoredTick == 3      \* latest timestamp of a record written

RecordsInit ==
    \/ \E n \in 0..MaxStored :
          \E events \in [1..n -> {[Event(b, x, y, <<122>>) EXCEPT !.p = p] :
                                    b \in {"thing", "economic"}, x \in 0..MaxStoredTick,
                                    y \in {<<97>>, <<98, 10>>}, p \in {0, 1}}] :
              PureInit([op |-> "store", events |-> events])
    \/ \E bucket \in {[present |-> FALSE, v |-> [name |-> "", padded |-> FALSE, upper |-> FALSE]]}
                     \cup {[present |-> TRUE, v |-> [name |-> n, padded |-> f, upper |-> f]] :
                              n \in {"thing", "week"}, f \in BOOLEAN} :
       \E x \in {[present |-> FALSE, v |-> [fmt |-> "", value |-> 0]]}
                 \cup {[present |-> TRUE, v |-> [fmt |-> f, value |-> 1]] :
                          f \in {"seconds", "minutes", "fraction", "words"}} :
       \E y \in {[present |-> FALSE, v |-> <<>>]}
                 \cup {[present |-> TRUE, v |-> t] :
                          t \in {<<>>, <<SPACE>>, <<97>>, <<SPACE, 97, SPACE, 98, NEWLINE>>}} :
       \E z \in {[present |-> FALSE, v |-> <<>>], [present |-> TRUE, v |-> <<TAB>>],
                  [present |-> TRUE, v |-> <<122, SPACE>>]} :
       \E p \in {[kind |-> k, value |-> 0, text |-> <<>>] : k \in {"none", "other", "str"}}
                 \cup {[kind |-> "number", value |-> 1, text |-> <<>>]}
                 \cup {[kind |-> "str", value |-> 0, text |-> t] :
                          t \in {<<SPACE>>, <<SPACE, 49, 50, SPACE>>, <<49, 97>>}} :
       \E r \in {[kind |-> "none", value |-> 0, text |-> <<>>],
                  [kind |-> "number", value |-> 3, text |-> <<>>],
                  [kind |-> "str", value |-> 0, text |-> <<97>>]} :
       \E jtbd_dict, nsm_dict \in BOOLEAN :
            PureInit([op |-> "normalize",
                      data |-> [bucket |-> bucket,
                                jtbd |-> [dict |-> jtbd_dict, x |-> x, y |-> y, z |-> z],
                                nsm |-> [dict |-> nsm_dict, p |-> p,
                                         q |-> [kind |-> "number", value |-> 2, text |-> <<>>],
                                         r |-> r]]])

SaveLoad ==
    /\ pin.op = "store"
    /\ ~pout.done
    /\ pout' = [done |-> TRUE, loaded |-> load_events(save_events(pin.events))]
    /\ UNCHANGED <<state, pending_delete, now, running, hist, pin>>

Normalize ==
    /\ pin.op = "normalize"
    /\ ~pout.done
    /\ pout' = [done |-> TRUE, result |-> normalize_event_payload(pin.data)]
    /\ UNCHANGED <<state, pending_delete, now, running, hist, pin>>

SpecRecords == RecordsInit /\ [][SaveLoad \/ Normalize]_vars

\* s and t hold the same records, each as many times
SameRecords(s, t) ==
    /\ Len(s) = Len(t)
    /\ \A e \in Range(s) \cup Range(t) :
          Cardinality({i \in 1..Len(s) : s[i] = e}) = Cardinality({i \in 1..Len(t) : t[i] = e})

\* C22 as stated: for any list of events, save_events followed by
\* load_events returns the same events, every field as saved, ordered by
\* timestamp.
C22_RoundTrip ==
    (pout.done /\ pin.op = "store")
        => SameRecords(pout.loaded, pin.events) /\ SortedByX(pout.loaded)

\* text without the blanks, tabs and line breaks at its two ends
Trimmed(text, trimmed) ==
    \E i \in 1..Len(text) + 1 : \E j \in 0..Len(text) :
        /\ trimmed = SubSeq(text, i, j)
        /\ \A k \in (1..i - 1) \cup (j + 1..Len(text)) : text[k] \in {SPACE, TAB, NEWLINE}
        /\ trimmed # <<>> => trimmed[1] \notin {SPACE, TAB, NEWLINE}
                             /\ trimmed[Len(trimmed)] \notin {SPACE, TAB, NEWLINE}

\* the metric is a number, or a text that reads as one once trimmed
Numeric(metric) ==
    \/ metric.kind = "number"
    \/ /\ metric.kind = "str"
       /\ \E t \in {strip(metric.text)} : t # <<>> /\ \A i \in 1..Len(t) : t[i] \in 48..57

\* the payload is one that normalize_event_payload is to refuse
Refused(data) ==
    \/ ~data.bucket.present
    \/ data.bucket.v.name \notin Range(BUCKETS)
    \/ ~data.jtbd.dict \/ ~data.nsm.dict
    \/ \E k \in {"x", "y", "z"} : ~data.jtbd[k].present
    \/ \A c \in Range(data.jtbd.y.v) : c \in {SPACE, TAB, NEWLINE}
    \/ \A c \in Range(data.jtbd.z.v) : c \in {SPACE, TAB, NEWLINE}
    \/ data.jtbd.x.v.fmt \notin {"seconds", "minutes", "fraction"}
    \/ \E k \in {"p", "q", "r"} : ~Numeric(data.nsm[k])

\* C23: normalize_event_payload raises ValidationError and returns no event
\* when the bucket is missing or unknown, x, y or z is missing, y or z is
\* blank, the timestamp does not parse or a metric is missing or not
\* numeric; for every other payload it returns the event of the trimmed and
\* parsed payload values.
C23_NormalizeOrRefuse ==
    (pout.done /\ pin.op = "normalize") =>
        IF Refused(pin.data) THEN ~pout.result.ok
        ELSE /\ pout.result.ok
             /\ pout.result.v.bucket = pin.data.bucket.v.name
             /\ pout.result.v.x = parse_datetime(pin.data.jtbd.x.v)
             /\ Trimmed(pin.data.jtbd.y.v, pout.result.v.y)
             /\ Trimmed(pin.data.jtbd.z.v, pout.result.v.z)
             /\ \A k \in {"p", "q", "r"} :
                   pout.result.v[k] = IF pin.data.nsm[k].kind = "number"
                                      THEN pin.data.nsm[k].value
                                      ELSE float(strip(pin.data.nsm[k].text))

C23_Witness ==
    /\ pout.done /\ pin.op = "normalize"
    /\ pout.result.ok
    /\ pin.data.bucket.v.padded
    /\ pin.data.jtbd.y.v # pout.result.v.y
    /\ pin.data.nsm.p.kind = "str" /\ pout.result.v.p = 12

(***************************************************************************)
(* Selection, delete and overlays                                          *)
(***************************************************************************)
\* The rows the view on screen offers for selection, and the selected index
SelectableRows(st) ==
    IF st.view = "agenda" THEN _visible_agenda_events(st)
    ELSE IF st.month_focus = "events" THEN _month_events_for_selected_date(st)
    ELSE <<>>

SelectedIndex(st) == IF st.view = "agenda" THEN st.agenda_index ELSE st.month_event_index

IndexInRange(i, n) == IF n = 0 THEN i = 0 ELSE i \in 0..(n - 1)

\* C1 as stated: the selection index of the agenda and that of the month
\* pane are both within the rows their view shows (0 when it shows none).
C1_EveryView ==
    /\ IndexInRange(state.agenda_index, Len(_visible_agenda_events(state)))
    /\ IndexInRange(state.month_event_index, Len(_month_events_for_selected_date(state)))

\* C1: the selection index of the view on screen is within the rows that
\* view shows (0 when it shows none).
C1_ViewOnScreen ==
    IF state.view = "agenda"
    THEN IndexInRange(state.agenda_index, Len(_visible_agenda_events(state)))
    ELSE IndexInRange(state.month_event_index, Len(_month_events_for_selected_date(state)))

\* The last row of the agenda was deleted and the selection moved up
C1_Witness ==
    /\ hist.effect = "deleted"
    /\ state.view = "agenda"
    /\ state.events = <<RecA, RecB>>
    /\ state.agenda_index = 1

\* C7 as stated: a delete key read right after any other key never deletes
\* a record.
C7_OtherKeyCancelsArm ==
    [][(hist'.op = "key" /\ hist'.ch = KEY_D /\ hist.ch \notin {KEY_D, None})
       => hist'.effect # "deleted"]_vars

\* What a delete key does, read while no error or message overlay is shown.
\* Read within the window of the delete key before it, with no key between:
\* delete is disarmed and, unless no row is selected, the selected record
\* alone leaves the list (or, when write_may_fail, the list is kept and the
\* error overlay shown).  Read with delete disarmed: it arms, and the list,
\* the view and the selection stay.
DeletePress(write_may_fail) ==
    LET Second ==
            /\ pending_delete.active
            /\ hist.ch = KEY_D
            /\ now' - pending_delete.started_at <= DELETE_TIMEOUT_MS
        Removed(target) ==
            \E k \in 1..Len(state.events) :
                state.events[k] = target /\ state'.events = RemoveAt(state.events, k)
        Confirmed(rows, idx) ==
            /\ ~pending_delete'.active
            /\ IF rows = <<>>
               THEN state'.events = state.events /\ hist'.effect = "no_target"
               ELSE \/ hist'.effect = "deleted" /\ Removed(rows[idx + 1])
                    \/ /\ write_may_fail
                       /\ hist'.effect = "delete_failed"
                       /\ state'.events = state.events
                       /\ state'.overlay = "error"
        First ==
            /\ hist'.effect = "armed"
            /\ pending_delete'.active
            /\ state'.events = state.events
            /\ state'.view = state.view
            /\ SelectedIndex(state') = SelectedIndex(state)
            /\ state'.month_selected_date = state.month_selected_date
    IN  (hist'.op = "key" /\ hist'.ch = KEY_D /\ state.overlay \notin {"error", "message"})
        => /\ Second => Confirmed(SelectableRows(state), SelectedIndex(state))
           /\ ~pending_delete.active => First

\* C8 as stated: the second delete key always removes the selected record.
C8_AlwaysRemoves == [][DeletePress(FALSE)]_vars

\* C8: the second delete key removes exactly the selected record unless
\* the write fails; then the list is kept and the error overlay is shown.
C8_RemovesUnlessWriteFails == [][DeletePress(TRUE)]_vars

\* The second of three records was deleted by two delete keys
C8_Witness ==
    /\ hist.effect = "deleted"
    /\ hist.ch = KEY_D
    /\ ~pending_delete.active
    /\ state.events = <<RecA, RecC>>

\* C9 as stated: a key read while an error or message overlay is shown
\* closes the overlay and does nothing else; the loop goes on.
C9_OverlayConsumesKey ==
    [][(state.overlay \in {"error", "message"} /\ hist'.op = "key")
       => (/\ running'
           /\ state' = [state EXCEPT !.overlay = "none"]
           /\ pending_delete' = pending_delete)]_vars

\* C10: while the help overlay is shown, Esc closes it and changes nothing
\* else, and any other key changes everything but the overlay as it does
\* from the same state with no overlay.
C10_HelpFallsThrough ==
    [][(state.overlay = "help" /\ hist'.op = "key")
       => IF hist'.ch = KEY_ESC
          THEN /\ state' = [state EXCEPT !.overlay = "none"]
               /\ pending_delete' = pending_delete
               /\ running'
          ELSE \E out \in EditOutcomes :
                   LET Same(r) ==
                           /\ [state' EXCEPT !.overlay = "none"] = [r.st EXCEPT !.overlay = "none"]
                           /\ pending_delete' = r.pd
                           /\ hist'.effect = r.effect
                           /\ running' = (~r.crashed /\ r.effect # "quit")
                   IN  Same(Iteration([state EXCEPT !.overlay = "none"], pending_delete,
                                      hist'.ch, Env(now', out[1], out[2])))]_vars

\* A key moved the agenda selection while the help overlay stayed open
C10_Witness ==
    /\ hist.op = "key"
    /\ hist.ch = KEY_J
    /\ state.overlay = "help"
    /\ state.view = "agenda"
    /\ state.agenda_index = 1

\* C24 as stated: the ? key toggles the help overlay: with no overlay shown
\* it opens help, and with help shown it closes help (no leader sequence
\* being open, which would take the key).
C24_HelpToggles ==
    [][(hist'.op = "key" /\ hist'.ch = KEY_HELP /\ ~state.leader.active)
       => /\ state.overlay = "none" => state'.overlay = "help"
          /\ state.overlay = "help" => state'.overlay = "none"]_vars

\* A frame of the agenda on a terminal of this size draws no rows: no usable
\* line or column, no line below the header, or a degenerate column layout
NoRows(st, term) ==
    \/ term[1] - 2 <= 0
    \/ Max(0, term[2] - 1) <= 0
    \/ ComputeLayout(MIN_WIDTHS, MAX_WIDTHS, HEADER_LENS,
                     ColumnLengths(_visible_agenda_events(st), TIMESTAMP_LEN),
                     Max(0, term[2] - 1)).skip

\* The state _handle_key leaves for the frame of this step
Handled(ch, ed) ==
    _handle_key(Machine(_maybe_timeout_leader(state, now'),
                        _maybe_timeout_delete(pending_delete, now')),
                ch, [Env(now', ed, "ok") EXCEPT !.term = pin'])

\* C25: a frame of the agenda that draws no rows (degenerate layout, or no
\* usable rows) leaves the selection index, the scroll offset, the focused
\* column, the expansion overrides and the record list as they were before
\* the frame.
C25_EmptyFrameKeepsState ==
    [][\A ed \in {EdFail, EdGood} :
          LET Frame(m) ==
                  (/\ hist'.op = "key"
                   /\ m.ret = "True" /\ ~m.crashed
                   /\ state' = _draw(m.st, pin')
                   /\ m.st.view = "agenda"
                   /\ NoRows(m.st, pin'))
                  => /\ state'.agenda_index = m.st.agenda_index
                     /\ state'.agenda_scroll = m.st.agenda_scroll
                     /\ state'.agenda_col = m.st.agenda_col
                     /\ state'.agenda_row_overrides = m.st.agenda_row_overrides
                     /\ state'.events = m.st.events
          IN  Frame(Handled(hist'.ch, ed))]_vars

\* After a key, a frame that draws no rows with the list scrolled and a row
\* other than the first selected
C25_Witness ==
    /\ hist.op = "key" /\ hist.ch \in {KEY_J, KEY_L}
    /\ state.view = "agenda"
    /\ NoRows(state, pin)
    /\ state.agenda_scroll > 0 /\ state.agenda_index > 0

\* C31 as stated: the column focus moves within [0, COLUMN_COUNT - 1] in
\* both views: from column c the h key gives max(0, c - 1) and the l key
\* gives min(COLUMN_COUNT - 1, c + 1) (in the agenda, and in the events pane
\* of the month view, with no leader sequence open and no overlay that
\* takes the key).
C31_ColumnFocusClamped ==
    [][(/\ hist'.op = "key" /\ hist'.ch \in {KEY_H, KEY_L}
        /\ ~state.leader.active
        /\ state.overlay \notin {"error", "message"})
       => LET Moved(c) == IF hist'.ch = KEY_H THEN Max(0, c - 1)
                          ELSE Min(COLUMN_COUNT - 1, c + 1)
          IN  /\ state.view = "agenda" => state'.agenda_col = Moved(state.agenda_col)
              /\ (state.view = "month" /\ state.month_focus = "events")
                    => state'.month_event_col = Moved(state.month_event_col)]_vars

\* C32 as stated: the input machine is in one of Idle, LeaderPending,
\* DeleteArmed, OverlayActive at a time: at most one of "leader active",
\* "delete armed" and "error or message overlay shown" holds.
C32_OneInputState ==
    /\ ~(state.leader.active /\ pending_delete.active)
    /\ ~(state.leader.active /\ state.overlay \in {"error", "message"})
    /\ ~(pending_delete.active /\ state.overlay \in {"error", "message"})

(***************************************************************************)
(* Leader sequences and Esc                                                *)
(***************************************************************************)
\* The sequences _handle_leader_input tests for, prefixes included
LeaderSequences ==
    {<<KEY_X>>, <<KEY_X, KEY_A>>, <<KEY_X, KEY_A, KEY_R>>, <<KEY_X, KEY_C>>, <<KEY_X, KEY_R>>}

\* C11 as stated: a key read while a leader sequence is pending that is Esc
\* or makes the sequence unrecognized cancels the sequence and changes
\* nothing else (quit keys apart).
C11_CancelWithoutDispatch ==
    [][(/\ state.leader.active
        /\ hist'.op = "key"
        /\ hist'.ch \notin QuitKeys
        /\ \/ hist'.ch = KEY_ESC
           \/ Append(state.leader.sequence, hist'.ch) \notin LeaderSequences)
       => (/\ state' = [state EXCEPT !.leader = LeaderIdle]
           /\ pending_delete' = pending_delete)]_vars

\* C12 as stated: Esc read with no overlay shown while a leader sequence is
\* pending or delete is armed leaves the leader idle and delete disarmed
\* and changes nothing else.
C12_EscDiscardsPendingOnly ==
    [][(/\ state.leader.active \/ pending_delete.active
        /\ state.overlay = "none"
        /\ hist'.op = "key"
        /\ hist'.ch = KEY_ESC)
       => (/\ state' = [state EXCEPT !.leader = LeaderIdle]
           /\ ~pending_delete'.active)]_vars

\* C35: the leader record is consistent in every state: inactive, its
\* sequence is empty and its start time unset; active, its start time is
\* set and its sequence is "", "x" or "xa", and is "" in the month view.
C35_LeaderConsistent ==
    IF state.leader.active
    THEN /\ state.leader.started_at_ms # None
         /\ state.leader.sequence \in {<<>>, <<KEY_X>>, <<KEY_X, KEY_A>>}
         /\ state.view = "month" => state.leader.sequence = <<>>
    ELSE /\ state.leader.sequence = <<>>
         /\ state.leader.started_at_ms = None

\* The sequence "xa" is open in the agenda
C35_Witness ==
    /\ state.leader.active
    /\ state.leader.sequence = <<KEY_X, KEY_A>>
    /\ state.view = "agenda"
    /\ hist.op = "key" /\ hist.ch = KEY_A

(***************************************************************************)
(* Row-expansion overrides                                                 *)
(***************************************************************************)
\* The identities of the records in the list
EventIdentities == {_event_identity(state.events[i]) : i \in 1..Len(state.events)}

\* C13: after every key, every identity in the row-expansion override set
\* is the identity of a record in the list.
C13_OverridesAreRecords == state.agenda_row_overrides \subseteq EventIdentities

\* An override is held after a key that changed the record list
C13_Witness ==
    /\ state.agenda_row_overrides # {}
    /\ hist.op = "key"
    /\ hist.ch \in EditKeys \cup {KEY_D}
    /\ hist.effect \in {"none", "deleted"}
    /\ state.events # <<RecA, RecB, RecC>>

(***************************************************************************)
(* Day jumps in the agenda                                                 *)
(***************************************************************************)
\* The record selected in the agenda
SelectedRecord(st) == _visible_agenda_events(st)[st.agenda_index + 1]

\* The agenda rows after (before) the selected one with a later (earlier) date
LaterRows(st) ==
    {j \in (st.agenda_index + 1)..(Len(_visible_agenda_events(st)) - 1) :
        DateOf(_visible_agenda_events(st)[j + 1].x) > DateOf(SelectedRecord(st).x)}

EarlierRows(st) ==
    {j \in 0..(st.agenda_index - 1) :
        DateOf(_visible_agenda_events(st)[j + 1].x) < DateOf(SelectedRecord(st).x)}

\* The first row with the date of row j
FirstOfDay(st, j) ==
    CHOOSE k \in 0..j :
        /\ DateOf(_visible_agenda_events(st)[k + 1].x) = DateOf(_visible_agenda_events(st)[j + 1].x)
        /\ \A l \in 0..(k - 1) :
              DateOf(_visible_agenda_events(st)[l + 1].x) # DateOf(_visible_agenda_events(st)[j + 1].x)

\* An iteration that read key ch with the agenda on screen and no overlay
AgendaKeyStep(ch) ==
    /\ hist'.op = "key"
    /\ hist'.ch = ch
    /\ state.view = "agenda"
    /\ state.overlay = "none"

\* C16: the jump to the next day selects the smallest index after the
\* selection whose record has a later date than the selected record.
C16_NextDay ==
    [][(AgendaKeyStep(KEY_CAP_L) /\ LaterRows(state) # {})
       => /\ state'.agenda_index \in LaterRows(state)
          /\ \A j \in LaterRows(state) : state'.agenda_index <= j]_vars

\* The jump to the next day went from the first record of a day over a
\* record of the same day to the first record of the next day
C16_Witness ==
    /\ hist.op = "key"
    /\ hist.ch = KEY_CAP_L
    /\ hist.keys = 1
    /\ state.events = <<RecA, RecB, RecC>>
    /\ state.agenda_index = 2

\* C17: a day jump selects the first later row with a later date, or the
\* first row of the nearest earlier date, and changes nothing when there
\* is no row with another date in its direction.
C17_DayJump ==
    [][/\ AgendaKeyStep(KEY_CAP_L)
          => IF LaterRows(state) = {} THEN state' = state
             ELSE /\ state'.agenda_index \in LaterRows(state)
                  /\ \A j \in LaterRows(state) : state'.agenda_index <= j
       /\ AgendaKeyStep(KEY_CAP_H)
          => IF EarlierRows(state) = {} THEN state' = state
             ELSE \E j \in EarlierRows(state) :
                     /\ \A l \in EarlierRows(state) : l <= j
                     /\ state'.agenda_index = FirstOfDay(state, j)]_vars

\* A backward jump went to the first record of the day before, and a
\* jump with no other date in its direction was read
C17_Witness ==
    /\ hist.op = "key"
    /\ hist.ch = KEY_CAP_H
    /\ hist.keys = 3
    /\ state.events = <<RecA, RecB, RecC>>
    /\ state.agenda_bucket_filter = ALL_BUCKET
    /\ state.agenda_index = 0

(***************************************************************************)
(* Editing                                                                 *)
(***************************************************************************)
\* An iteration that read a cell or bucket edit key and changed the list
EditStep ==
    /\ hist'.op = "key"
    /\ hist'.ch \in {KEY_I, KEY_CAP_B}
    /\ state'.events # state.events

\* The records of the list after a step that were not in it before
NewRecords == Range(state'.events) \ Range(state.events)

\* The indices of the rows on screen that have the identity of record r
RowsOf(st, r) ==
    {i \in 0..(Len(SelectableRows(st)) - 1) :
        _event_identity(SelectableRows(st)[i + 1]) = _event_identity(r)}

\* C14 as stated: after an edit that changed the list the selection is on
\* a row with the identity of the edited record if the view shows one, and
\* otherwise is the selection before the edit clamped to the rows shown.
C14_ReselectOrClamp ==
    [][EditStep =>
         \A r \in NewRecords :
            IF RowsOf(state', r) # {}
            THEN SelectedIndex(state') \in RowsOf(state', r)
            ELSE SelectedIndex(state') =
                     clamp(SelectedIndex(state), 0,
                           Max(0, Len(SelectableRows(state')) - 1))]_vars

\* An iteration in the agenda that read the cell edit key with a record
\* selected and a text column focused, and changed the list
TextEditStep ==
    /\ EditStep
    /\ hist'.ch = KEY_I
    /\ state.view = "agenda"
    /\ _visible_agenda_events(state) # <<>>
    /\ state.agenda_col >= 1

\* r2 is r with another text in y or in z
TextEdited(r, r2) == r2 # r /\ [r2 EXCEPT !.y = r.y, !.z = r.z] = r

\* What C15 says of the list and the selection after the edit of record r
EditedInPlace(r) ==
    /\ \E r2 \in Range(state'.events) :
          /\ TextEdited(r, r2)
          /\ _event_identity(SelectedRecord(state')) = _event_identity(r2)
    /\ \A r3 \in Range(state'.events) : _event_identity(r3) # _event_identity(r)
    /\ Len(state'.events) = Len(state.events)

IsExpanded(st, ev) ==
    st.agenda_expand_all = ~InOverrides(view_event_identity(ev), st.agenda_row_overrides)

\* The iteration that reads r after the leader key and x, in the agenda with
\* a row selected
ToggleRowStep ==
    /\ hist'.op = "key" /\ hist'.ch = KEY_R
    /\ state.overlay = "none"
    /\ state.leader.active /\ state.leader.sequence = <<KEY_X>>
    /\ state.view = "agenda"
    /\ _visible_agenda_events(state) # <<>>

\* C33 as stated: the sequence leader, x, r in the agenda returns to Idle and
\* flips the expanded or collapsed display of the selected row and of no
\* other row in the next frame.
C33_ToggleFlipsSelectedRow ==
    [][ToggleRowStep =>
          /\ ~state'.leader.active
          /\ \A i \in 1..Len(_visible_agenda_events(state)) :
                IsExpanded(state', _visible_agenda_events(state)[i])
                    = IF i = state.agenda_index + 1
                      THEN ~IsExpanded(state, _visible_agenda_events(state)[i])
                      ELSE IsExpanded(state, _visible_agenda_events(state)[i])]_vars

\* new differs from old in no field but the one shown in column col; the
\* fourth column shows the metrics p, q and r
OnlyFocusedField(col, old, new) ==
    CASE col = 0 -> new = [old EXCEPT !.x = new.x]
      [] col = 1 -> new = [old EXCEPT !.y = new.y]
      [] col = 2 -> new = [old EXCEPT !.z = new.z]
      [] OTHER -> new.x = old.x /\ new.y = old.y /\ new.z = old.z

\* C37 as stated: a cell edit in the agenda that changes the list replaces
\* the selected record by one that differs from it only in the field of
\* the focused column: x, y or z for columns 0, 1 and 2, and none of x, y
\* and z for the fourth column.
C37_EditChangesFocusedField ==
    [][(/\ hist'.op = "key" /\ hist'.ch = KEY_I
        /\ state.view = "agenda"
        /\ state'.events # state.events
        /\ _visible_agenda_events(state) # <<>>)
       => \E new \in Range(state'.events) :
             /\ state'.events = upsert_event(state.events, new, TRUE, SelectedRecord(state))
             /\ OnlyFocusedField(state.agenda_col, SelectedRecord(state), new)]_vars

\* C38 as stated: in the month view, while the focus is on the events
\* pane the selected date has at least one record passing the bucket
\* filter.
C38_EventsFocusHasRecords ==
    (state.view = "month" /\ state.month_focus = "events")
        => _month_events_for_selected_date(state) # <<>>

(***************************************************************************)
(* Failed edits, creations and deletes                                     *)
(***************************************************************************)
\* The keys and editing sessions that make an action fail from state st
\* with no overlay shown: an editor that fails, a blank payload, a
\* timestamp that does not parse, a bucket that does not exist.
FailingEdits(st) ==
    {<<KEY_N, EdFail>>}
    \cup (IF st.view = "agenda" /\ _visible_agenda_events(st) # <<>>
          THEN ({KEY_I, KEY_CAP_B} \X {EdFail, EdBlank})
               \cup {<<KEY_CAP_B, EdBad>>}
               \cup (IF st.agenda_col = 0 THEN {<<KEY_I, EdBad>>} ELSE {})
          ELSE {})

\* The step is the iteration that reads key ch with the editing session ed
\* and the storage write io
StepOf(ch, ed, io) ==
    /\ hist'.op = "key"
    /\ hist'.ch = ch
    /\ \E r \in {Iteration(state, pending_delete, ch, Env(now', ed, io))} :
          /\ state' = r.st
          /\ pending_delete' = r.pd
          /\ hist'.effect = r.effect

\* The step is an edit or a creation that failed, or a delete whose write
\* failed
FailedStep ==
    /\ state.overlay = "none"
    /\ \/ \E f \in FailingEdits(state) : StepOf(f[1], f[2], "ok")
       \/ hist'.effect = "delete_failed"

\* C18 as stated: a failed edit, creation or delete leaves the error or
\* message overlay on screen.
C18_FailureShowsOverlay ==
    [][FailedStep => state'.overlay \in {"error", "message"}]_vars

\* C19: a failed edit, creation or delete, and an edit or a creation whose
\* write fails, leave the record list as it was.
C19_FailureKeepsList ==
    [][(FailedStep \/ hist'.effect = "crashed") => state'.events = state.events]_vars

\* A delete failed at the write with records in the list
C19_Witness ==
    /\ hist.op = "key"
    /\ hist.effect = "delete_failed"
    /\ state.events # <<>>

(***************************************************************************)
(* Timeouts of the leader sequence and of the armed delete                 *)
(***************************************************************************)
\* C4 as stated: after every loop iteration a pending leader sequence is no
\* older than the leader timeout, counted from the leader key press,
\* whatever sequence keys were typed since.
C4_SinceLeaderKey ==
    state.leader.active => now - hist.leader_at <= LEADER_TIMEOUT_MS

\* C4: after every loop iteration a pending leader sequence is no older
\* than the leader timeout, counted from the last key the sequence took
\* (the leader key or a sequence key); a leader that is not pending has an
\* empty sequence.
C4_SinceLastSequenceKey ==
    IF state.leader.active
    THEN now - state.leader.started_at_ms <= LEADER_TIMEOUT_MS
    ELSE state.leader = LeaderIdle

\* A sequence that took a key after the leader key has timed out
C4_Witness ==
    /\ hist.op = "idle"
    /\ "leader" \in hist.expired
    /\ hist.ch = KEY_X
    /\ ~state.leader.active

\* C5: after every loop iteration an armed delete is no older than the
\* delete window, and an iteration that reads no key deletes no record.
C5_DeleteTimeout ==
    [][/\ pending_delete'.active => now' - pending_delete'.started_at <= DELETE_TIMEOUT_MS
       /\ hist'.op = "idle" => state'.events = state.events]_vars

\* An armed delete has timed out with no key read
C5_Witness ==
    /\ hist.op = "idle"
    /\ "delete" \in hist.expired
    /\ hist.ch = KEY_D
    /\ ~pending_delete.active
    /\ now - hist.last_d > DELETE_TIMEOUT_MS

\* C6: a delete key read more than the delete window after the delete key
\* before it (or read first) only arms: the list of records is unchanged.
C6_LateSecondPress ==
    [][(/\ hist'.op = "key"
        /\ hist'.ch = KEY_D
        /\ (hist.last_d = None \/ now' - hist.last_d > DELETE_TIMEOUT_MS))
       => (/\ hist'.effect = "armed"
           /\ pending_delete'.active
           /\ state'.events = state.events)]_vars

\* A second delete key came too late and armed again
C6_Witness ==
    /\ hist.op = "key"
    /\ hist.ch = KEY_D
    /\ hist.prev_d # None
    /\ now - hist.prev_d > DELETE_TIMEOUT_MS
    /\ hist.effect = "armed"
    /\ state.view = "agenda"
    /\ state.events = <<RecA, RecB>>

(***************************************************************************)
(* The file beside the list in memory.  Every store.upsert_event ends in   *)
(* save_events, which replaces the whole file (_write_atomic); the file is *)
(* held here as the list of records last handed to save_events.            *)
(***************************************************************************)
MaxEdited == 2          \* records of one editor payload

\* The records lists are drawn from
StoredRecords ==
    {[Event(b, x, <<97>>, <<122>>) EXCEPT !.p = p] :
        b \in {"thing", "economic"}, x \in 0..1, p \in {0, 1}}

\* The loop of _edit_or_create over updated_events, none an overwrite
\* (originals is empty under force_new): new_events after each upsert,
\* the file each upsert wrote, and whether the write numbered fail_at
\* raised OSError out of _write_atomic and ended the loop.
RECURSIVE UpsertEach(_, _, _, _)
UpsertEach(new_events, file, updated_events, fail_at) ==
    IF updated_events = <<>> THEN [new_events |-> new_events, file |-> file, raised |-> FALSE]
    ELSE IF fail_at = 1 THEN [new_events |-> new_events, file |-> file, raised |-> TRUE]
    ELSE LET Written(ordered) ==
                 UpsertEach(ordered, ordered, Tail(updated_events), fail_at - 1)
         IN  Written(upsert_event(new_events, Head(updated_events), FALSE,
                                  Head(updated_events)))

\* models.event_to_jsonable: the object written to the editor's file, with
\* the keys bucket, jtbd and nsm; x.strftime(DATETIME_FMT) writes whole
\* seconds
event_to_jsonable(event) ==
    [bucket |-> event.bucket,
     jtbd |-> [x |-> [fmt |-> "seconds", value |-> event.x \div TICKS_PER_SECOND],
               y |-> event.y, z |-> event.z],
     nsm |-> [p |-> event.p, q |-> event.q, r |-> event.r]]

\* edit_event_via_editor, the body of `for item in data`: an item is read
\* through its keys "bucket" and "coordinates"; an item with no bucket and
\* no coordinates is skipped; normalized_input, handed to
\* normalize_event_payload, has the keys "bucket" and "coordinates" and
\* neither "jtbd" nor "nsm".
RECURSIVE ReadItems(_)
ReadItems(data) ==
    LET item == Head(data)
        blank == "coordinates" \notin DOMAIN item
        missing == [present |-> FALSE, v |-> <<>>]
        none == [kind |-> "none", value |-> 0, text |-> <<>>]
        normalized_input ==
            [bucket |-> [present |-> TRUE,
                         v |-> [name |-> item.bucket, padded |-> FALSE, upper |-> FALSE]],
             jtbd |-> [dict |-> FALSE, x |-> missing, y |-> missing, z |-> missing],
             nsm |-> [dict |-> FALSE, p |-> none, q |-> none, r |-> none]]
        Joined(rest) ==
            IF rest.ok
            THEN [ok |-> TRUE,
                  events |-> <<normalize_event_payload(normalized_input).v>> \o rest.events]
            ELSE [ok |-> FALSE]
    IN  IF data = <<>> THEN [ok |-> TRUE, events |-> <<>>]
        ELSE IF item.bucket = "" /\ blank THEN ReadItems(Tail(data))
        ELSE IF ~normalize_event_payload(normalized_input).ok THEN [ok |-> FALSE]
        ELSE Joined(ReadItems(Tail(data)))

\* editor.edit_event_via_editor for an editor that exits with returncode
\* and leaves the file as it was written
edit_event_via_editor(seed_events, returncode) ==
    IF returncode # 0 THEN [ok |-> FALSE]
    ELSE ReadItems([i \in 1..Len(seed_events) |-> event_to_jsonable(seed_events[i])])

StorageInit ==
    \/ \E n \in 0..MaxStored : \E events \in [1..n -> StoredRecords] :
       \E k \in 0..MaxEdited : \E updated_events \in [1..k -> StoredRecords] :
       \E fail_at \in 0..k :
           /\ SortEvents(events) = events
           /\ PureInit([op |-> "edit", events |-> events, updated_events |-> updated_events,
                        fail_at |-> fail_at])
    \/ \E n \in 0..MaxStored : \E events \in [1..n -> StoredRecords] :
       \E new_event, original \in StoredRecords : \E editing \in BOOLEAN :
           PureInit([op |-> "upsert", events |-> events, new_event |-> new_event,
                     editing |-> editing, original |-> original])
    \/ \E n \in 0..MaxStored : \E seed_events \in [1..n -> StoredRecords] :
       \E returncode \in {0, 1} :
           PureInit([op |-> "editor", seed_events |-> seed_events,
                     returncode |-> returncode])

\* The try block of _edit_or_create once the editor returned ok:
\* self.state.events is assigned after the loop, so an exception in the
\* loop leaves it as it was.
StoredEdit ==
    /\ pin.op = "edit"
    /\ ~pout.done
    /\ pout' = LET After(r) == [done |-> TRUE,
                                 events |-> IF r.raised THEN pin.events ELSE r.new_events,
                                 file |-> r.file,
                                 raised |-> r.raised]
               IN  After(UpsertEach(pin.events, pin.events, pin.updated_events, pin.fail_at))
    /\ UNCHANGED <<state, pending_delete, now, running, hist, pin>>

\* One call of store.upsert_event with replace_dt = (editing, original)
Upsert ==
    /\ pin.op = "upsert"
    /\ ~pout.done
    /\ pout' = [done |-> TRUE,
                ordered |-> upsert_event(pin.events, pin.new_event, pin.editing, pin.original)]
    /\ UNCHANGED <<state, pending_delete, now, running, hist, pin>>

\* One run of the editor over the seed events
EditSeed ==
    /\ pin.op = "editor"
    /\ ~pout.done
    /\ pout' = [done |-> TRUE, result |-> edit_event_via_editor(pin.seed_events, pin.returncode)]
    /\ UNCHANGED <<state, pending_delete, now, running, hist, pin>>

SpecStorage == StorageInit /\ [][StoredEdit \/ Upsert \/ EditSeed]_vars

Count(s, e) == Cardinality({i \in 1..Len(s) : s[i] = e})

\* C39: upsert_event returns a list sorted by (x, bucket, y, z, p, q, r)
\* that holds the records of the input list and the new record, less one
\* occurrence of the original when an original is given and is in the
\* list: an edit of a record of the list keeps the length, an insert adds
\* one, and with the original absent the new record is added all the same.
C39_UpsertSortedOneReplaced ==
    (pin.op = "upsert" /\ pout.done)
        => LET present == pin.editing /\ Count(pin.events, pin.original) > 0
           IN  /\ \A i \in 1..(Len(pout.ordered) - 1) :
                     ~KeyLess(pout.ordered[i + 1], pout.ordered[i])
               /\ Len(pout.ordered) = Len(pin.events) + (IF present THEN 0 ELSE 1)
               /\ \A e \in StoredRecords :
                     Count(pout.ordered, e) =
                         Count(pin.events, e) + (IF e = pin.new_event THEN 1 ELSE 0)
                                              - (IF present /\ e = pin.original THEN 1 ELSE 0)

\* an edit of a record that the list holds twice, by a record that sorts
\* before it, was stored
C39_Witness ==
    /\ pin.op = "upsert"
    /\ pout.done
    /\ pin.editing
    /\ Count(pin.events, pin.original) = 2
    /\ KeyLess(pin.new_event, pin.original)
    /\ pout.ordered = <<pin.new_event, pin.original>>

\* C40 as stated: when the editor exits with status 0 and the seeded file
\* is saved unchanged, edit_event_via_editor returns ok with a list of
\* events equal, field for field, to the seed events.
C40_SeedRoundTrip ==
    (pin.op = "editor" /\ pout.done /\ pin.returncode = 0)
        => pout.result.ok /\ pout.result.events = pin.seed_events

====
